---- MODULE Spec2Model ----
(***************************************************************************)
(* Model of the documentation search engine of the generated skill CLI     *)
(* (templates/cli.ts): cmdSearch -> searchDocs -> walkFiles /              *)
(* extractFrontmatter / keyword counting / sort / slice.                   *)
(*                                                                         *)
(* Strings are sequences of one-character strings, so that tokenizing,     *)
(* lowercasing, searching and number parsing are computed, not assumed.    *)
(* String positions keep the source's 0-based convention (idx), sequence   *)
(* positions are 1-based.                                                  *)
(***************************************************************************)
EXTENDS Integers, Sequences, FiniteSets, TLC

\* ------------------------------------------------------------------------
\* Bounds of the model
\* ------------------------------------------------------------------------

\* Number.MAX_SAFE_INTEGER + 1 scaled down: the value at which matchesCount++
\* no longer changes matchesCount.
MaxCount == 7

\* ------------------------------------------------------------------------
\* Characters and strings
\* ------------------------------------------------------------------------

NL == "\n"

\* /\s/
IsWs(c) == c \in {" ", NL, "\t"}

IsDigit(c) == c \in {"0", "1", "2", "3", "4", "5", "6", "7", "8", "9"}

DigitVal(c) ==
  CASE c = "0" -> 0 [] c = "1" -> 1 [] c = "2" -> 2 [] c = "3" -> 3
    [] c = "4" -> 4 [] c = "5" -> 5 [] c = "6" -> 6 [] c = "7" -> 7
    [] c = "8" -> 8 [] c = "9" -> 9

\* String.prototype.toLowerCase on one character of the model's alphabet.
LowerChar(c) ==
  CASE c = "A" -> "a" [] c = "B" -> "b" [] c = "M" -> "m" [] c = "D" -> "d"
    [] OTHER -> c

toLowerCase(s) == [i \in 1..Len(s) |-> LowerChar(s[i])]

Min(a, b) == IF a <= b THEN a ELSE b
Max(a, b) == IF a >= b THEN a ELSE b

SetMax(S) == CHOOSE x \in S : \A y \in S : y <= x
SetMin(S) == CHOOSE x \in S : \A y \in S : x <= y

\* s.startsWith(t, pos) with a 0-based pos.
MatchesAt(s, t, pos) ==
  /\ pos >= 0
  /\ pos + Len(t) <= Len(s)
  /\ \A k \in 1..Len(t) : s[pos + k] = t[k]

\* String.prototype.indexOf(searchString, position): 0-based, -1 when absent.
\* The empty search string is found at min(position, length).
indexOf(s, t, from) ==
  LET start == Max(0, Min(from, Len(s)))
      hits  == {p \in start..Len(s) : MatchesAt(s, t, p)}
  IN  IF hits = {} THEN -1 ELSE SetMin(hits)

\* String.prototype.split(/\s+/): every maximal run of whitespace is one
\* separator; a separator at the start or the end (and the empty string)
\* leaves an empty piece, which split keeps.
RECURSIVE SplitRec(_, _, _, _)
SplitRec(s, i, cur, acc) ==
  IF i > Len(s) THEN Append(acc, cur)
  ELSE IF IsWs(s[i])
       THEN IF i > 1 /\ IsWs(s[i - 1])
            THEN SplitRec(s, i + 1, cur, acc)
            ELSE SplitRec(s, i + 1, <<>>, Append(acc, cur))
       ELSE SplitRec(s, i + 1, Append(cur, s[i]), acc)

SplitWs(s) == SplitRec(s, 1, <<>>, <<>>)

\* query.toLowerCase().split(/\s+/)
Keywords(query) == SplitWs(toLowerCase(query))

\* Array.prototype.join(" ")
RECURSIVE JoinSp(_)
JoinSp(parts) ==
  IF parts = <<>> THEN <<>>
  ELSE IF Len(parts) = 1 THEN parts[1]
  ELSE parts[1] \o <<" ">> \o JoinSp(Tail(parts))

\* ------------------------------------------------------------------------
\* Numbers: a JS number is either NaN or an integer
\* ------------------------------------------------------------------------

NaN == [nan |-> TRUE, val |-> 0]
Num(n) == [nan |-> FALSE, val |-> n]

RECURSIVE DigitsVal(_, _, _)
DigitsVal(s, i, acc) ==
  IF i > Len(s) \/ ~IsDigit(s[i]) THEN acc
  ELSE DigitsVal(s, i + 1, acc * 10 + DigitVal(s[i]))

RECURSIVE SkipWs(_, _)
SkipWs(s, i) == IF i <= Len(s) /\ IsWs(s[i]) THEN SkipWs(s, i + 1) ELSE i

\* parseInt(s, 10): leading whitespace, an optional sign, then the longest
\* run of digits; NaN when there is no digit.
parseInt(s) ==
  LET i0   == SkipWs(s, 1)
      neg  == i0 <= Len(s) /\ s[i0] = "-"
      i1   == IF i0 <= Len(s) /\ s[i0] \in {"-", "+"} THEN i0 + 1 ELSE i0
  IN  IF i1 > Len(s) \/ ~IsDigit(s[i1]) THEN NaN
      ELSE Num((IF neg THEN -1 ELSE 1) * DigitsVal(s, i1, 0))

\* Array.prototype.slice(0, end): ToIntegerOrInfinity(NaN) = 0, a negative
\* end counts from the back of the array.
slice0(arr, end) ==
  LET rel == IF end.nan THEN 0 ELSE end.val
      fin == IF rel < 0 THEN Max(Len(arr) + rel, 0) ELSE Min(rel, Len(arr))
  IN  SubSeq(arr, 1, fin)

\* ------------------------------------------------------------------------
\* extractFrontmatter: /^---\s*\n(.*?)\n---\s*\n(.*)/s
\* ------------------------------------------------------------------------

IsWsRun(s, i, j) == \A k \in i..j : IsWs(s[k])

\* positions r of the newline closing the final "---\s*\n", the closing
\* "\n---" starting at q
Closers(s, q) ==
  {r \in (q + 4)..Len(s) : s[r] = NL /\ IsWsRun(s, q + 4, r - 1)}

ValidClose(s, q) ==
  /\ q + 3 <= Len(s)
  /\ s[q] = NL /\ s[q + 1] = "-" /\ s[q + 2] = "-" /\ s[q + 3] = "-"
  /\ Closers(s, q) # {}

\* positions p of the newline ending the opening "---\s*\n"
Openers(s) ==
  {p \in 4..Len(s) : /\ s[p] = NL
                     /\ IsWsRun(s, 4, p - 1)
                     /\ \E q \in (p + 1)..Len(s) : ValidClose(s, q)}

FrontmatterMatches(s) ==
  /\ Len(s) >= 3
  /\ s[1] = "-" /\ s[2] = "-" /\ s[3] = "-"
  /\ Openers(s) # {}

\* [yaml, body] of the match: \s* is greedy (largest p, largest r), (.*?) is
\* lazy (smallest q).
FrontmatterMatch(s) ==
  LET p == SetMax(Openers(s))
      q == SetMin({x \in (p + 1)..Len(s) : ValidClose(s, x)})
      r == SetMax(Closers(s, q))
  IN  [yaml |-> SubSeq(s, p + 1, q - 1), body |-> SubSeq(s, r + 1, Len(s))]

\* the body half of extractFrontmatter's result
extractBody(content) ==
  IF FrontmatterMatches(content) THEN FrontmatterMatch(content).body
  ELSE content

\* ------------------------------------------------------------------------
\* YAML.load on the fragment of YAML the corpus uses: blank lines, lines
\* "key: value" with a plain or a double-quoted value, lines "key:" and lines
\* of plain text
\* ------------------------------------------------------------------------

\* String.prototype.split("\n"): the pieces between the newlines, the k-th
\* piece lying between the (k-1)-th and the k-th newline
splitNL(s) ==
  LET seps == {i \in 1..Len(s) : s[i] = NL}
      n == Cardinality(seps)
      sep == [k \in 0..(n + 1) |->
                IF k = 0 THEN 0
                ELSE IF k = n + 1 THEN Len(s) + 1
                ELSE CHOOSE x \in seps :
                       Cardinality({y \in seps : y < x}) = k - 1]
  IN  [k \in 1..(n + 1) |-> SubSeq(s, sep[k - 1] + 1, sep[k] - 1)]

\* Array.prototype.join("\n"), the array joined half by half
RECURSIVE joinNL(_)
joinNL(parts) ==
  IF parts = <<>> THEN <<>>
  ELSE IF Len(parts) = 1 THEN parts[1]
  ELSE LET h == Len(parts) \div 2
       IN  joinNL(SubSeq(parts, 1, h)) \o <<NL>>
           \o joinNL(SubSeq(parts, h + 1, Len(parts)))

IsBlank(line) == \A k \in 1..Len(line) : IsWs(line[k])

\* positions of a ":" that ends a key: followed by a space or by the line's end
KeyColons(line) ==
  {i \in 1..Len(line) :
     line[i] = ":" /\ (i = Len(line) \/ line[i + 1] = " ")}

Quote == "\""

\* the text after the key's colon, without the blanks around it
RECURSIVE TrimLeft(_)
TrimLeft(t) == IF t # <<>> /\ t[1] = " " THEN TrimLeft(Tail(t)) ELSE t
RECURSIVE TrimRight(_)
TrimRight(t) ==
  IF t # <<>> /\ t[Len(t)] = " " THEN TrimRight(SubSeq(t, 1, Len(t) - 1))
  ELSE t
Trim(t) == TrimRight(TrimLeft(t))

IsQuoted(t) ==
  /\ Len(t) >= 2 /\ t[1] = Quote /\ t[Len(t)] = Quote
  /\ \A k \in 2..(Len(t) - 1) : t[k] # Quote

\* a scalar of the fragment: null, or a string
YamlNull == [isNull |-> TRUE, str |-> <<>>]
YamlStr(t) == [isNull |-> FALSE, str |-> t]

\* one line read as a "key: value" pair: ok is FALSE where the YAML reader
\* rejects the line, pair is FALSE where the line has no key at all
YamlLine(line) ==
  IF KeyColons(line) = {} THEN
    [pair |-> FALSE, ok |-> TRUE, key |-> <<>>, value |-> YamlNull]
  ELSE
    LET c == SetMin(KeyColons(line))
        key == SubSeq(line, 1, c - 1)
        text == Trim(SubSeq(line, c + 1, Len(line)))
        okKey == key # <<>> /\ \A k \in 1..Len(key) : key[k] \notin {" ", Quote}
    IN  IF text = <<>> THEN
          [pair |-> TRUE, ok |-> okKey, key |-> key, value |-> YamlNull]
        ELSE IF IsQuoted(text) THEN
          [pair |-> TRUE, ok |-> okKey, key |-> key,
           value |-> YamlStr(SubSeq(text, 2, Len(text) - 1))]
        ELSE
          [pair |-> TRUE,
           ok |-> okKey /\ KeyColons(text) = {} /\ text[1] # Quote,
           key |-> key, value |-> YamlStr(text)]

\* the mapping of a sequence of pairs
PairsToMap(ps) ==
  [k \in {ps[i].key : i \in 1..Len(ps)} |->
     (CHOOSE x \in {ps[i] : i \in 1..Len(ps)} : x.key = k).value]

\* a document start marker: "---" and blanks
IsMarker(line) ==
  /\ Len(line) >= 3
  /\ line[1] = "-" /\ line[2] = "-" /\ line[3] = "-"
  /\ \A k \in 4..Len(line) : line[k] \in {" ", "\t"}

\* YAML.load(text): kind is "undefined" for an empty document, "map" for a
\* mapping, "scalar" for plain text, "throw" where the reader raises (a
\* second document included)
yamlLoad(text) ==
  LET all == SelectSeq(splitNL(text), LAMBDA l : ~IsBlank(l))
      lines == IF all # <<>> /\ IsMarker(all[1]) THEN Tail(all) ELSE all
      ps == [i \in 1..Len(lines) |-> YamlLine(lines[i])]
      idxs == 1..Len(lines)
  IN  IF \E i \in idxs : IsMarker(lines[i]) THEN
        [kind |-> "throw", map |-> <<>>]
      ELSE IF lines = <<>> THEN [kind |-> "undefined", map |-> <<>>]
      ELSE IF \A i \in idxs : ~ps[i].pair THEN
        [kind |-> "scalar", map |-> <<>>]
      ELSE IF /\ \A i \in idxs : ps[i].pair /\ ps[i].ok
              /\ \A i, j \in idxs : ps[i].key = ps[j].key => i = j
              /\ \A i \in idxs : lines[i][1] # " "
      THEN [kind |-> "map", map |-> PairsToMap(ps)]
      ELSE [kind |-> "throw", map |-> <<>>]

\* the metadata object before anything is assigned to it
EmptyFrontmatter == <<>>

\* extractFrontmatter(content): the metadata stays empty unless the block
\* decodes to an object; the body is the match's second group either way
extractFrontmatter(content) ==
  IF ~FrontmatterMatches(content) THEN
    [frontmatter |-> EmptyFrontmatter, body |-> content]
  ELSE
    LET m == FrontmatterMatch(content)
        parsed == yamlLoad(m.yaml)
    IN  [frontmatter |-> IF parsed.kind = "map" THEN parsed.map
                         ELSE EmptyFrontmatter,
         body |-> m.body]

\* ------------------------------------------------------------------------
\* getContext(text, query, contextLines) and formatResults(results, query)
\* ------------------------------------------------------------------------

\* String.prototype.includes
includes(s, t) == indexOf(s, t, 0) # -1

IsMatchCaseSensitive(line, keywords) ==
  \E k \in 1..Len(keywords) : includes(line, keywords[k])

\* keywords.some((kw) => line.toLowerCase().includes(kw))
IsMatch(line, keywords) ==
  \E k \in 1..Len(keywords) : includes(toLowerCase(line), keywords[k])

\* the lines that hold every keyword, in place of some keyword
matchIndicesEvery(lines, keywords) ==
  SelectSeq([i \in 1..Len(lines) |-> i - 1],
            LAMBDA i : \A k \in 1..Len(keywords) :
                         includes(toLowerCase(lines[i + 1]), keywords[k]))

\* the 0-based indices of the matching lines, ascending
matchIndices(lines, keywords) ==
  SelectSeq([i \in 1..Len(lines) |-> i - 1],
            LAMBDA i : IsMatch(lines[i + 1], keywords))

GroupGapNarrow(contextLines) == contextLines * 2

\* the largest gap between two matches of one group
GroupGap(contextLines) == contextLines * 2 + 1

\* the grouping loop, at the i-th match (i counts from 1)
RECURSIVE GroupRec(_, _, _, _, _)
GroupRec(m, i, currentGroup, groups, contextLines) ==
  IF i > Len(m) THEN Append(groups, currentGroup)
  ELSE IF m[i] - m[i - 1] <= GroupGap(contextLines)
  THEN GroupRec(m, i + 1, Append(currentGroup, m[i]), groups, contextLines)
  ELSE GroupRec(m, i + 1, <<m[i]>>, Append(groups, currentGroup),
                contextLines)

groupIndices(m, contextLines) == GroupRec(m, 2, <<m[1]>>, <<>>, contextLines)

HitPrefix == <<">", " ">>
PlainPrefix == <<" ", " ">>

\* group.includes(originalIdx) ? "> " : "  "
LinePrefix(group, originalIdx) ==
  IF \E k \in 1..Len(group) : group[k] = originalIdx THEN HitPrefix
  ELSE PlainPrefix

\* a window that starts one line earlier
StartIdxEarly(group, contextLines) == Max(0, group[1] - contextLines - 1)

\* Math.max(0, group[0] - contextLines)
StartIdx(group, contextLines) == Max(0, group[1] - contextLines)

EndIdxShort(lines, group, contextLines) ==
  Min(Len(lines), group[Len(group)] + contextLines)

EndIdx(lines, group, contextLines) ==
  Min(Len(lines), group[Len(group)] + contextLines + 1)

\* the snippet of one group
formatGroup(lines, group, contextLines) ==
  LET startIdx == StartIdx(group, contextLines)
      endIdx == EndIdx(lines, group, contextLines)
      formatted ==
        [i \in 1..(endIdx - startIdx) |->
           LinePrefix(group, startIdx + i - 1) \o lines[startIdx + i]]
  IN  joinNL(formatted)

\* the groups getContext forms (none where no line matches)
contextGroups(text, query, contextLines) ==
  LET m == matchIndices(splitNL(text), Keywords(query))
  IN  IF m = <<>> THEN <<>> ELSE groupIndices(m, contextLines)

getContext(text, query, contextLines) ==
  LET lines == splitNL(text)
      groups == contextGroups(text, query, contextLines)
  IN  [g \in 1..Len(groups) |-> formatGroup(lines, groups[g], contextLines)]

\* the contextLines of a call that leaves it out
DefaultContextLines == 2

\* the number of snippets the textual report shows of one result
ShownContexts == 3

Printed(kind, val) == [kind |-> kind, val |-> val]

\* console.log(ctx); console.log("   ...") for each context shown
RECURSIVE PrintContexts(_)
PrintContexts(ctxs) ==
  IF ctxs = <<>> THEN <<>>
  ELSE <<Printed("snippet", ctxs[1]), Printed("marker", <<>>)>>
       \o PrintContexts(Tail(ctxs))

ContextsToShowAll(res) == res.contexts

\* res.contexts.slice(0, 3)
ContextsToShow(res) == slice0(res.contexts, Num(ShownContexts))

PrintResult(res) ==
  <<Printed("file", res.file),
    Printed("matches", res.matches),
    Printed("source", res.source_url),
    Printed("fetched", res.fetched_at),
    Printed("separator", <<>>)>>
  \o PrintContexts(ContextsToShow(res))
  \o <<Printed("blank", <<>>)>>

RECURSIVE PrintResults(_)
PrintResults(rs) ==
  IF rs = <<>> THEN <<>> ELSE PrintResult(rs[1]) \o PrintResults(Tail(rs))

\* the lines formatResults writes to standard output
formatResults(rs, q) ==
  IF Len(rs) = 0 THEN <<Printed("nomatch", q)>>
  ELSE <<Printed("title", q), Printed("found", Len(rs))>> \o PrintResults(rs)

\* ------------------------------------------------------------------------
\* Paths and the corpus on disk
\* ------------------------------------------------------------------------

\* entry names
AMd  == <<"a", ".", "m", "d">>
BMd  == <<"b", ".", "m", "d">>
CMd  == <<"c", ".", "m", "d">>
NTxt == <<"n", ".", "t", "x", "t">>
SubName == <<"s">>
References == <<"r", "e", "f", "e", "r", "e", "n", "c", "e", "s">>

\* A path is the sequence of entry names below REFERENCES_DIR; REFERENCES_DIR
\* itself is the empty path.
REFERENCES_DIR == <<>>

\* path.join(dir, entry.name)
pathJoin(dir, name) == Append(dir, name)

\* path.relative(SKILL_DIR, filePath): REFERENCES_DIR = SKILL_DIR/references
pathRelative(filePath) == <<References>> \o filePath

\* path.extname(name): from the last "." to the end, "" when there is no
\* "." or the only "." is the first character.
extname(name) ==
  LET dots == {i \in 1..Len(name) : name[i] = "."}
  IN  IF dots = {} \/ SetMax(dots) = 1 THEN <<>>
      ELSE SubSeq(name, SetMax(dots), Len(name))

ExtMatchesDottedOnly(name, exts) ==
  \E k \in 1..Len(exts) : extname(name) = exts[k]

\* exts.some((e) => ext === e || ext === `.${e}`)
ExtMatches(name, exts) ==
  \E k \in 1..Len(exts) :
     extname(name) = exts[k] \/ extname(name) = <<".">> \o exts[k]

\* the exts argument searchDocs passes to walkFiles
MdExts == << <<".", "m", "d">> >>

\* The shape of the corpus: references/{a.md, b.md, s/{c.md, n.txt}}
Dirents(dir) ==
  IF dir = REFERENCES_DIR
  THEN {[name |-> AMd, kind |-> "file"], [name |-> BMd, kind |-> "file"],
        [name |-> SubName, kind |-> "dir"]}
  ELSE {[name |-> CMd, kind |-> "file"], [name |-> NTxt, kind |-> "file"]}

\* The shape of a crawl directory:
\* {a.html, l.html -> a file outside, n, s/{c.html, b.md, o -> a directory
\* outside, t/{e.html}}}
AHtml == <<"a", ".", "h", "t", "m", "l">>
LHtml == <<"l", ".", "h", "t", "m", "l">>
CHtml == <<"c", ".", "h", "t", "m", "l">>
EHtml == <<"e", ".", "h", "t", "m", "l">>
NoExtName == <<"n">>
OutName == <<"o">>
TName == <<"t">>

CrawlDirents(dir) ==
  IF dir = <<>>
  THEN {[name |-> AHtml, kind |-> "file"], [name |-> LHtml, kind |-> "symlink"],
        [name |-> NoExtName, kind |-> "file"], [name |-> SubName, kind |-> "dir"]}
  ELSE IF dir = <<SubName>>
  THEN {[name |-> CHtml, kind |-> "file"], [name |-> BMd, kind |-> "file"],
        [name |-> OutName, kind |-> "symlink"], [name |-> TName, kind |-> "dir"]}
  ELSE {[name |-> EHtml, kind |-> "file"]}

MdPaths == {<<AMd>>, <<BMd>>, <<SubName, CMd>>}
FilePaths == MdPaths \cup {<<SubName, NTxt>>}

\* file contents of the model
DocAaa == <<"a", "a", "a">>
DocAab == <<"A", "a", "b">>
DocFm  == <<"-", "-", "-", NL, "a", NL, "-", "-", "-", NL, "b">>
Contents == {DocAaa, DocAab, DocFm}

\* a file that fs.readFile rejects, or a file with its content
Unreadable == [readable |-> FALSE, content |-> <<>>]
FileOf(c) == [readable |-> TRUE, content |-> c]
FileStates == {Unreadable} \cup {FileOf(c) : c \in Contents}

\* The file systems of the model.  root: "ok", "missing" (fs.access
\* rejects) or "unlistable" (the directory exists, fs.readdir rejects);
\* subOk: whether fs.readdir of references/s succeeds.
FileSystems ==
  {[root |-> "ok", subOk |-> so, files |-> f, layout |-> "corpus"] :
     so \in BOOLEAN,
     f \in {g \in [FilePaths -> FileStates] : g[<<SubName, NTxt>>] = FileOf(DocAaa)}}
  \cup
  {[root |-> r, subOk |-> TRUE, files |-> [p \in FilePaths |-> FileOf(DocAaa)],
    layout |-> "corpus"] :
     r \in {"missing", "unlistable"}}

\* the crawl directories a walk is run on: every directory listable, or the
\* directories under the root not
CrawlFileSystems ==
  {[root |-> "ok", subOk |-> so, files |-> [p \in FilePaths |-> FileOf(DocAaa)],
    layout |-> "crawl"] : so \in BOOLEAN}

\* all orders in which fs.readdir can list a set of entries
Orders(S) ==
  {f \in [1..Cardinality(S) -> S] : \A i, j \in 1..Cardinality(S) : f[i] = f[j] => i = j}

\* ------------------------------------------------------------------------
\* Command line inputs
\* ------------------------------------------------------------------------

\* positionals of "cli.ts search ..."
PositionalsSet ==
  { <<>>,
    << <<>> >>,
    << <<"a">> >>,
    << <<"a", "a">> >>,
    << <<"A">>, <<"b">> >>,
    << <<" ", "a">> >> }

\* values["max-results"]: undefined, or the option's text
NotGiven == [given |-> FALSE, text |-> <<>>]
Given(t) == [given |-> TRUE, text |-> t]
MaxResultsOptions ==
  {NotGiven, Given(<<"1">>), Given(<<"2">>), Given(<<"0">>),
   Given(<<"-", "1">>), Given(<<"x">>)}

\* parseInt(values["max-results"] || "10", 10)
ParseMaxResults(opt) ==
  parseInt(IF opt.given /\ opt.text # <<>> THEN opt.text ELSE <<"1", "0">>)

\* ------------------------------------------------------------------------
\* Ranking
\* ------------------------------------------------------------------------

\* mutant of compareMatches: ascending order
compareMatchesAscending(a, b) == a.matches - b.matches

\* the comparator of results.sort: negative when a sorts before b
compareMatches(a, b) == b.matches - a.matches

\* Array.prototype.sort is stable: an element goes behind every element
\* already placed that does not compare greater than it.
RECURSIVE InsertSorted(_, _)
InsertSorted(sorted, x) ==
  IF sorted = <<>> THEN <<x>>
  ELSE IF compareMatches(sorted[1], x) <= 0
       THEN <<sorted[1]>> \o InsertSorted(Tail(sorted), x)
       ELSE <<x>> \o sorted

RECURSIVE sortResults(_)
sortResults(rs) ==
  IF rs = <<>> THEN <<>>
  ELSE InsertSorted(sortResults(SubSeq(rs, 1, Len(rs) - 1)), rs[Len(rs)])

\* ------------------------------------------------------------------------
\* State
\* ------------------------------------------------------------------------

VARIABLES
  fs,            \* the corpus on disk, unchanged by a search
  pc,            \* position of cmdSearch / searchDocs
  query,         \* positionals.join(" ")
  maxResults,    \* the parsed --max-results
  keywords,      \* searchDocs: keywords
  stack,         \* walkFiles: the suspended generator frames, innermost last
  filePath,      \* the path walkFiles yielded last
  bodyLower,     \* searchDocs: bodyLower of the file being scored
  kwI,           \* position of "for (const kw of keywords)" (1-based)
  idx,           \* searchDocs: idx
  matchesCount,  \* searchDocs: matchesCount
  results,       \* searchDocs: results
  returned,      \* the value searchDocs resolved with
  stderr,        \* console.error lines, in order
  yielded,       \* history: the paths walkFiles yielded, in order
  reads,         \* history: the paths passed to fs.readFile, in order
  prev,          \* history: outcomes of the earlier searches of this corpus
  step,          \* position of a direct call of one function: "call", "returned"
  arg,           \* the arguments of that call
  out            \* the value that call returned

vars == <<fs, pc, query, maxResults, keywords, stack, filePath, bodyLower,
          kwI, idx, matchesCount, results, returned, stderr, yielded, reads,
          prev, step, arg, out>>

\* the variables of the direct function calls, which a search leaves alone
callVars == <<step, arg, out>>

\* the variables of a search, which a direct function call leaves alone
searchVars == <<fs, pc, query, maxResults, keywords, stack, filePath,
                bodyLower, kwI, idx, matchesCount, results, returned, stderr,
                yielded, reads, prev>>

\* no search is running
SearchIdle ==
  /\ pc = "idle"
  /\ query = <<>>
  /\ maxResults = Num(10)
  /\ keywords = <<>>
  /\ stack = <<>>
  /\ filePath = <<>>
  /\ bodyLower = <<>>
  /\ kwI = 1
  /\ idx = 0
  /\ matchesCount = 0
  /\ results = <<>>
  /\ returned = <<>>
  /\ stderr = <<>>
  /\ yielded = <<>>
  /\ reads = <<>>
  /\ prev = <<>>

\* no direct function call is made
NoCall ==
  /\ step = "none"
  /\ arg = <<>>
  /\ out = <<>>

Init ==
  /\ fs \in FileSystems
  /\ SearchIdle
  /\ NoCall

\* ------------------------------------------------------------------------
\* Environment: fs.access, fs.readdir, fs.readFile
\* ------------------------------------------------------------------------

\* fs.access(REFERENCES_DIR) rejects
AccessFails == fs.root = "missing"

\* fs.readdir(dir, { withFileTypes: true }) rejects
ReaddirFails(dir) ==
  IF dir = REFERENCES_DIR THEN fs.root # "ok" ELSE ~fs.subOk

\* the arrays fs.readdir(dir) can resolve with: the directory's entries in
\* whatever order the file system lists them
Readdir(dir) ==
  Orders(IF fs.layout = "crawl" THEN CrawlDirents(dir) ELSE Dirents(dir))

\* the optional exts argument of walkFiles
NoExts == [given |-> FALSE, list |-> <<>>]
Exts(list) == [given |-> TRUE, list |-> list]

\* who iterates walkFiles: searchDocs over REFERENCES_DIR, or the pipeline's
\* main over its crawl directory
WalkCaller == IF step = "none" THEN "searchDocs" ELSE "main"

\* the exts of the running walk
WalkExts == IF WalkCaller = "searchDocs" THEN Exts(MdExts) ELSE arg.exts

\* if (exts) { if (!exts.some(...)) continue; }
ExtsAccept(name, exts) == ~exts.given \/ ExtMatches(name, exts.list)

\* fs.readFile(path, "utf-8") rejects
ReadFileFails(path) == ~fs.files[path].readable

\* ------------------------------------------------------------------------
\* searchDocs, step by step
\* ------------------------------------------------------------------------

Frame(dir, entries) == [dir |-> dir, entries |-> entries, i |-> 1]
Top == stack[Len(stack)]
Pop(st) == SubSeq(st, 1, Len(st) - 1)
Advance(st) == [st EXCEPT ![Len(st)].i = @ + 1]

ErrLine(kind, path) == [kind |-> kind, path |-> path]

\* mutant of NextIdx: idx += 1, which counts overlapping occurrences
NextIdxByOne(found, kw) == found + 1

\* idx += kw.length after a match found at position found
NextIdx(found, kw) == found + Len(kw)

\* matchesCount++
Increment(n) == IF n < MaxCount THEN n + 1 ELSE n

\* mutant of IsCandidate: every scored file is pushed
IsCandidateAlways(n) == n >= 0

\* if (matchesCount > 0)
IsCandidate(n) == n > 0

\* the record pushed to results
\* the default of a result's missing field
Unknown == YamlStr(<<"U", "n", "k", "n", "o", "w", "n">>)

SourceUrlKey == <<"s", "o", "u", "r", "c", "e", "_", "u", "r", "l">>
FetchedAtKey == <<"f", "e", "t", "c", "h", "e", "d", "_", "a", "t">>

\* a value JavaScript takes for true in `value || "Unknown"`
Truthy(v) == ~v.isNull /\ v.str # <<>>

FieldOrUnknownOfSourceUrl(frontmatter, key) ==
  IF SourceUrlKey \in DOMAIN frontmatter /\ Truthy(frontmatter[SourceUrlKey])
  THEN frontmatter[SourceUrlKey]
  ELSE Unknown

\* (frontmatter[key] as string) || "Unknown"
FieldOrUnknown(frontmatter, key) ==
  IF key \in DOMAIN frontmatter /\ Truthy(frontmatter[key])
  THEN frontmatter[key]
  ELSE Unknown

SearchResult(path, n, frontmatter, contexts) ==
  [file |-> pathRelative(path),
   matches |-> n,
   contexts |-> contexts,
   source_url |-> FieldOrUnknown(frontmatter, SourceUrlKey),
   fetched_at |-> FieldOrUnknown(frontmatter, FetchedAtKey)]

\* mutant of AfterReadError: the read error leaves searchDocs
AfterReadErrorThrows == "threw"

\* what the catch block around fs.readFile does: report, go on with the walk
AfterReadError == "walk"

\* cmdSearch up to the call of searchDocs: parseArgs, the usage check,
\* query and maxResults.
cmdSearch ==
  /\ pc = "idle"
  /\ \E positionals \in PositionalsSet, opt \in MaxResultsOptions :
       IF Len(positionals) = 0
       THEN /\ stderr' = Append(stderr, ErrLine("usage", <<>>))
            /\ pc' = "exit1"
            /\ UNCHANGED <<query, maxResults>>
       ELSE /\ query' = JoinSp(positionals)
            /\ maxResults' = ParseMaxResults(opt)
            /\ pc' = "access"
            /\ UNCHANGED stderr
  /\ UNCHANGED callVars
  /\ UNCHANGED <<fs, keywords, stack, filePath, bodyLower, kwI, idx,
                 matchesCount, results, returned, yielded, reads, prev>>

\* searchDocs: await fs.access(REFERENCES_DIR), then keywords and results
Access ==
  /\ pc = "access"
  /\ IF AccessFails
     THEN /\ stderr' = Append(stderr, ErrLine("notfound", REFERENCES_DIR))
          /\ returned' = <<>>
          /\ pc' = "done"
          /\ UNCHANGED <<keywords, results>>
     ELSE /\ keywords' = Keywords(query)
          /\ results' = <<>>
          /\ pc' = "walk0"
          /\ UNCHANGED <<stderr, returned>>
  /\ UNCHANGED callVars
  /\ UNCHANGED <<fs, query, maxResults, stack, filePath, bodyLower, kwI, idx,
                 matchesCount, yielded, reads, prev>>

\* walkFiles(REFERENCES_DIR, [".md"]): the first readdir
WalkStart ==
  /\ pc = "walk0"
  /\ IF ReaddirFails(REFERENCES_DIR)
     THEN /\ pc' = "threw"
          /\ UNCHANGED stack
     ELSE /\ \E entries \in Readdir(REFERENCES_DIR) :
               stack' = <<Frame(REFERENCES_DIR, entries)>>
          /\ pc' = "walk"
  /\ UNCHANGED callVars
  /\ UNCHANGED <<fs, query, maxResults, keywords, filePath, bodyLower, kwI,
                 idx, matchesCount, results, returned, stderr, yielded,
                 reads, prev>>

\* walkFiles: one turn of "for (const entry of entries)" in the innermost
\* frame
WalkEntry ==
  /\ pc = "walk"
  /\ stack # <<>>
  /\ Top.i <= Len(Top.entries)
  /\ LET entry    == Top.entries[Top.i]
         fullPath == pathJoin(Top.dir, entry.name)
     IN  IF entry.kind = "dir"
         THEN IF ReaddirFails(fullPath)
              THEN /\ pc' = "threw"
                   /\ UNCHANGED <<stack, filePath, yielded>>
              ELSE /\ \E entries \in Readdir(fullPath) :
                        stack' = Append(Advance(stack), Frame(fullPath, entries))
                   /\ UNCHANGED <<pc, filePath, yielded>>
         ELSE IF entry.kind = "file" /\ ExtsAccept(entry.name, WalkExts)
              THEN /\ stack' = Advance(stack)
                   /\ filePath' = fullPath
                   /\ yielded' = Append(yielded, fullPath)
                   /\ pc' = IF WalkCaller = "searchDocs" THEN "read"
                            ELSE "collect"
              ELSE /\ stack' = Advance(stack)
                   /\ UNCHANGED <<pc, filePath, yielded>>
  /\ UNCHANGED callVars
  /\ UNCHANGED <<fs, query, maxResults, keywords, bodyLower, kwI, idx,
                 matchesCount, results, returned, stderr, reads, prev>>

\* walkFiles: the innermost frame has no entry left; the outermost frame
\* ending ends the "for await" of the caller
WalkReturn ==
  /\ pc = "walk"
  /\ stack # <<>>
  /\ Top.i > Len(Top.entries)
  /\ stack' = Pop(stack)
  /\ pc' = IF Len(stack) > 1 THEN "walk"
           ELSE IF WalkCaller = "searchDocs" THEN "sort" ELSE "done"
  /\ UNCHANGED callVars
  /\ UNCHANGED <<fs, query, maxResults, keywords, filePath, bodyLower, kwI,
                 idx, matchesCount, results, returned, stderr, yielded,
                 reads, prev>>

\* searchDocs: await fs.readFile(filePath), extractFrontmatter, bodyLower
ReadFile ==
  /\ pc = "read"
  /\ reads' = Append(reads, filePath)
  /\ IF ReadFileFails(filePath)
     THEN /\ stderr' = Append(stderr, ErrLine("readerr", filePath))
          /\ pc' = AfterReadError
          /\ UNCHANGED <<bodyLower, kwI, idx, matchesCount>>
     ELSE /\ bodyLower' = toLowerCase(extractBody(fs.files[filePath].content))
          /\ matchesCount' = 0
          /\ kwI' = 1
          /\ idx' = 0
          /\ pc' = "score"
          /\ UNCHANGED stderr
  /\ UNCHANGED callVars
  /\ UNCHANGED <<fs, query, maxResults, keywords, stack, filePath, results,
                 returned, yielded, prev>>

\* searchDocs: one turn of "while ((idx = bodyLower.indexOf(kw, idx)) !== -1)"
\* that finds kw
ScoreHit ==
  /\ pc = "score"
  /\ kwI <= Len(keywords)
  /\ LET found == indexOf(bodyLower, keywords[kwI], idx)
     IN  /\ found # -1
         /\ matchesCount' = Increment(matchesCount)
         /\ idx' = NextIdx(found, keywords[kwI])
  /\ UNCHANGED callVars
  /\ UNCHANGED <<fs, pc, query, maxResults, keywords, stack, filePath,
                 bodyLower, kwI, results, returned, stderr, yielded, reads,
                 prev>>

\* searchDocs: indexOf returns -1, the while loop ends and the for loop takes
\* the next keyword
ScoreNextKeyword ==
  /\ pc = "score"
  /\ kwI <= Len(keywords)
  /\ indexOf(bodyLower, keywords[kwI], idx) = -1
  /\ kwI' = kwI + 1
  /\ idx' = 0
  /\ UNCHANGED callVars
  /\ UNCHANGED <<fs, pc, query, maxResults, keywords, stack, filePath,
                 bodyLower, matchesCount, results, returned, stderr, yielded,
                 reads, prev>>

\* searchDocs: every keyword is counted; push the result if the file matches
ScoreEnd ==
  /\ pc = "score"
  /\ kwI > Len(keywords)
  /\ results' = IF IsCandidate(matchesCount)
                THEN Append(results,
                       SearchResult(filePath, matchesCount,
                         extractFrontmatter(
                           fs.files[filePath].content).frontmatter,
                         getContext(
                           extractFrontmatter(
                             fs.files[filePath].content).body,
                           query, DefaultContextLines)))
                ELSE results
  /\ pc' = "walk"
  /\ UNCHANGED callVars
  /\ UNCHANGED <<fs, query, maxResults, keywords, stack, filePath, bodyLower,
                 kwI, idx, matchesCount, returned, stderr, yielded, reads,
                 prev>>

\* searchDocs: results.sort(...); return results.slice(0, maxResults)
SortAndReturn ==
  /\ pc = "sort"
  /\ results' = sortResults(results)
  /\ returned' = slice0(sortResults(results), maxResults)
  /\ pc' = "done"
  /\ UNCHANGED callVars
  /\ UNCHANGED <<fs, query, maxResults, keywords, stack, filePath, bodyLower,
                 kwI, idx, matchesCount, stderr, yielded, reads, prev>>

Next ==
  \/ cmdSearch
  \/ Access
  \/ WalkStart
  \/ WalkEntry
  \/ WalkReturn
  \/ ReadFile
  \/ ScoreHit
  \/ ScoreNextKeyword
  \/ ScoreEnd
  \/ SortAndReturn

Spec == Init /\ [][Next]_vars

\* a document of several lines, with letters next to the line breaks
DocLines == <<"b", "A", NL, "c", NL, "a", "b">>

\* corpora whose files all have the same state, over every root and
\* subdirectory condition
UniformFileSystems ==
  {[root |-> r, subOk |-> so, files |-> [p \in FilePaths |-> st],
    layout |-> "corpus"] :
     r \in {"ok", "missing", "unlistable"}, so \in BOOLEAN,
     st \in FileStates \cup {FileOf(DocLines)}}

\* the searches over the uniform corpora
InitUniform ==
  /\ fs \in UniformFileSystems
  /\ SearchIdle
  /\ NoCall

SpecUniform == InitUniform /\ [][Next]_vars

\* the search of a corpus of documents without frontmatter, with its
\* scheduling: the process is single-threaded and every await it makes is
\* settled, so a step that can be taken is taken
InitLive ==
  /\ fs \in {f \in UniformFileSystems :
               f.files[<<AMd>>] \in {Unreadable, FileOf(DocAaa), FileOf(DocAab)}}
  /\ SearchIdle
  /\ NoCall

SpecLive == InitLive /\ [][Next]_vars /\ WF_vars(Next)

\* ------------------------------------------------------------------------
\* A second search of the unchanged corpus with the same arguments
\* ------------------------------------------------------------------------

Outcome == [yielded |-> yielded, returned |-> returned]

Rerun ==
  /\ pc = "done"
  /\ prev = <<>>
  /\ prev' = Append(prev, Outcome)
  /\ pc' = "access"
  /\ keywords' = <<>>
  /\ stack' = <<>>
  /\ filePath' = <<>>
  /\ bodyLower' = <<>>
  /\ kwI' = 1
  /\ idx' = 0
  /\ matchesCount' = 0
  /\ results' = <<>>
  /\ returned' = <<>>
  /\ stderr' = <<>>
  /\ yielded' = <<>>
  /\ reads' = <<>>
  /\ UNCHANGED callVars
  /\ UNCHANGED <<fs, query, maxResults>>

\* corpora of the rerun specification: everything readable, two contents
InitRerun ==
  /\ Init
  /\ fs.root = "ok" => \A p \in MdPaths : fs.files[p].content \in {DocAaa, DocAab}
  /\ fs.root # "missing"

NextRerun == Next \/ Rerun

SpecRerun == InitRerun /\ [][NextRerun]_vars

\* ------------------------------------------------------------------------
\* One file's text through extractFrontmatter and into a result
\* ------------------------------------------------------------------------

\* the longest text, in lines
MaxLines == 4

DelimLine == <<"-", "-", "-">>
DelimSpLine == <<"-", "-", "-", " ">>
EmptyLine == <<>>
TextLine == <<"b">>
SourceUrlLine == SourceUrlKey \o <<":", " ", Quote, "a", Quote>>
SourceUrlEmptyLine == SourceUrlKey \o <<":", " ", Quote, Quote>>
FetchedAtLine == FetchedAtKey \o <<":", " ", Quote, "b", Quote>>
BadYamlLine == <<"x", ":", " ", "y", ":", " ", "z">>

FmLines ==
  {DelimLine, DelimSpLine, EmptyLine, TextLine, SourceUrlLine,
   SourceUrlEmptyLine, FetchedAtLine, BadYamlLine}

\* the texts of at most MaxLines lines
FmContents ==
  {joinNL(ls) : ls \in UNION {[1..n -> FmLines] : n \in 0..MaxLines}}

\* the file system of a run that searches nothing
IdleFs ==
  [root |-> "missing", subOk |-> TRUE,
   files |-> [p \in FilePaths |-> FileOf(DocAaa)], layout |-> "corpus"]

InitFm ==
  /\ fs = IdleFs
  /\ SearchIdle
  /\ step = "call"
  /\ arg \in {[fn |-> "extractFrontmatter", content |-> c, query |-> TextLine] :
               c \in FmContents}
  /\ out = <<>>

\* const { frontmatter, body } = extractFrontmatter(content)
ExtractFrontmatter ==
  /\ step = "call"
  /\ arg.fn = "extractFrontmatter"
  /\ out' = extractFrontmatter(arg.content)
  /\ step' = "extracted"
  /\ UNCHANGED arg
  /\ UNCHANGED searchVars

\* results.push({ file, matches, contexts, source_url, fetched_at }) for a
\* file with one match
PushResult ==
  /\ step = "extracted"
  /\ out' = [frontmatter |-> out.frontmatter,
             body |-> out.body,
             result |-> SearchResult(<<AMd>>, 1, out.frontmatter,
                          getContext(out.body, arg.query,
                                     DefaultContextLines))]
  /\ step' = "pushed"
  /\ UNCHANGED arg
  /\ UNCHANGED searchVars

NextFm == ExtractFrontmatter \/ PushResult

SpecFm == InitFm /\ [][NextFm]_vars

\* ------------------------------------------------------------------------
\* One body through getContext and its snippets through formatResults
\* ------------------------------------------------------------------------

\* the longest body, in lines, and the largest contextLines
MaxBodyLines == 8
MaxContextLines == 2

HitLineCA == <<"c", "A">>
LineB == <<"B">>
CtxLineSet == {HitLineCA, LineB}

\* a body whose lines 10, 11 and 50 hold "cA"
Body53 == joinNL([i \in 1..53 |-> IF (i - 1) \in {10, 11, 50} THEN HitLineCA
                                   ELSE LineB])

\* a body whose lines 0, 6, 12 and 18 hold "cA"
Body19 == joinNL([i \in 1..19 |-> IF (i - 1) % 6 = 0 THEN HitLineCA
                                   ELSE LineB])

CtxBodies ==
  {joinNL(ls) : ls \in UNION {[1..n -> CtxLineSet] : n \in 0..MaxBodyLines}}

CtxQueries == {<<"a">>, <<"A">>, <<"b">>, <<"x">>, <<" ", "a">>}

InitCtx ==
  /\ fs = IdleFs
  /\ SearchIdle
  /\ step = "call"
  /\ arg \in {[fn |-> "getContext", text |-> t, query |-> q,
               contextLines |-> c] :
               t \in CtxBodies, q \in CtxQueries, c \in 0..MaxContextLines}
           \cup
           {[fn |-> "getContext", text |-> t, query |-> <<"a">>,
             contextLines |-> DefaultContextLines] : t \in {Body53, Body19}}
  /\ out = <<>>

\* getContext(text, query, contextLines), its matchIndices and groups kept
GetContext ==
  /\ step = "call"
  /\ arg.fn = "getContext"
  /\ out' = [matchIndices |->
               matchIndices(splitNL(arg.text), Keywords(arg.query)),
             groups |-> contextGroups(arg.text, arg.query, arg.contextLines),
             contexts |-> getContext(arg.text, arg.query, arg.contextLines),
             stdout |-> <<>>]
  /\ step' = "returned"
  /\ UNCHANGED arg
  /\ UNCHANGED searchVars

\* formatResults of the search's results: one result with these contexts, no
\* result where no line matched
FormatResults ==
  /\ step = "returned"
  /\ arg.fn = "getContext"
  /\ LET rs == IF out.contexts = <<>> THEN <<>>
               ELSE <<SearchResult(<<AMd>>, Len(out.matchIndices),
                                   EmptyFrontmatter, out.contexts)>>
     IN  out' = [out EXCEPT !.stdout = formatResults(rs, arg.query)]
  /\ step' = "printed"
  /\ UNCHANGED arg
  /\ UNCHANGED searchVars

NextCtx == GetContext \/ FormatResults

SpecCtx == InitCtx /\ [][NextCtx]_vars

\* ------------------------------------------------------------------------
\* walkFiles(crawlDir, exts) iterated by the pipeline's main
\* ------------------------------------------------------------------------

HtmlExt == <<".", "h", "t", "m", "l">>
HtmlExtUndotted == <<"h", "t", "m", "l">>
MdExtUndotted == <<"m", "d">>

\* the exts arguments of the walks
ExtsOptions ==
  {NoExts, Exts(<<HtmlExt>>), Exts(<<HtmlExtUndotted>>),
   Exts(<<MdExtUndotted, HtmlExt>>), Exts(<<>>)}

\* the segments of the absolute path of the crawl directory
CrawlDirAbs == <<"crawl">>

\* path.resolve on segments: "." is dropped, ".." drops the segment before it
RECURSIVE ResolveRec(_, _)
ResolveRec(segs, acc) ==
  IF segs = <<>> THEN acc
  ELSE IF segs[1] = "." THEN ResolveRec(Tail(segs), acc)
  ELSE IF segs[1] = ".."
  THEN ResolveRec(Tail(segs),
                  IF acc = <<>> THEN acc ELSE SubSeq(acc, 1, Len(acc) - 1))
  ELSE ResolveRec(Tail(segs), Append(acc, segs[1]))

pathResolve(segs) == ResolveRec(segs, <<>>)

\* absHtmlFile.startsWith(absCrawlDir)
StartsWith(path, prefix) ==
  Len(prefix) <= Len(path) /\ SubSeq(path, 1, Len(prefix)) = prefix

InitWalk ==
  /\ fs \in CrawlFileSystems
  /\ SearchIdle
  /\ step = "call"
  /\ arg \in {[fn |-> "walkFiles", exts |-> e] : e \in ExtsOptions}
  /\ out = <<>>

\* main: const htmlFiles = []; for await (... of walkFiles(crawlDir, exts))
WalkCall ==
  /\ pc = "idle"
  /\ step = "call"
  /\ arg.fn = "walkFiles"
  /\ pc' = "walk0"
  /\ step' = "walking"
  /\ UNCHANGED <<arg, out>>
  /\ UNCHANGED <<fs, query, maxResults, keywords, stack, filePath, bodyLower,
                 kwI, idx, matchesCount, results, returned, stderr, yielded,
                 reads, prev>>

\* main: the file walkFiles yielded is skipped with a warning when its
\* resolved path does not start with the resolved crawl directory, and is
\* kept otherwise
Collect ==
  /\ pc = "collect"
  /\ IF ~StartsWith(pathResolve(CrawlDirAbs \o filePath),
                    pathResolve(CrawlDirAbs))
     THEN /\ stderr' = Append(stderr, ErrLine("traversal", filePath))
          /\ UNCHANGED out
     ELSE /\ out' = Append(out, filePath)
          /\ UNCHANGED stderr
  /\ pc' = "walk"
  /\ UNCHANGED <<step, arg>>
  /\ UNCHANGED <<fs, query, maxResults, keywords, stack, filePath, bodyLower,
                 kwI, idx, matchesCount, results, returned, yielded, reads,
                 prev>>

NextWalk == WalkCall \/ WalkStart \/ WalkEntry \/ WalkReturn \/ Collect

SpecWalk == InitWalk /\ [][NextWalk]_vars

\* ------------------------------------------------------------------------
\* normalizeLinks(mdContent, sourceUrl)
\* ------------------------------------------------------------------------

\* String.prototype.startsWith
startsWith(s, prefix) ==
  Len(prefix) <= Len(s) /\ SubSeq(s, 1, Len(prefix)) = prefix

\* the first position >= from (1-based) of the character ch in s, 0 if none
FirstAt(s, ch, from) ==
  LET at == {i \in from..Len(s) : s[i] = ch}
  IN  IF at = {} THEN 0 ELSE SetMin(at)

\* the pieces of s between the separators ch
RECURSIVE SplitOnRec(_, _, _, _, _)
SplitOnRec(s, ch, i, cur, acc) ==
  IF i > Len(s) THEN Append(acc, cur)
  ELSE IF s[i] = ch THEN SplitOnRec(s, ch, i + 1, <<>>, Append(acc, cur))
  ELSE SplitOnRec(s, ch, i + 1, Append(cur, s[i]), acc)

SplitOn(s, ch) == SplitOnRec(s, ch, 1, <<>>, <<>>)

RECURSIVE JoinWith(_, _)
JoinWith(parts, ch) ==
  IF parts = <<>> THEN <<>>
  ELSE IF Len(parts) = 1 THEN parts[1]
  ELSE parts[1] \o <<ch>> \o JoinWith(Tail(parts), ch)

IsAlpha(c) ==
  c \in {"a", "c", "d", "e", "g", "h", "i", "l", "m", "o", "p", "s", "t", "x"}

\* the URL begins with a scheme
HasScheme(url) ==
  LET c == FirstAt(url, ":", 1)
  IN  c > 1 /\ \A k \in 1..(c - 1) : IsAlpha(url[k])

\* the percent-encoding of the characters of a path
RECURSIVE EncodePath(_)
EncodePath(t) ==
  IF t = <<>> THEN <<>>
  ELSE (IF t[1] = " " THEN <<"%", "2", "0">>
        ELSE IF t[1] = Quote THEN <<"%", "2", "2">>
        ELSE <<t[1]>>) \o EncodePath(Tail(t))

\* the segments of a path with "." and ".." resolved
RECURSIVE DotSegments(_, _)
DotSegments(segs, acc) ==
  IF segs = <<>> THEN acc
  ELSE IF segs[1] = <<".">> THEN DotSegments(Tail(segs), acc)
  ELSE IF segs[1] = <<".", ".">>
  THEN DotSegments(Tail(segs),
                   IF acc = <<>> THEN acc ELSE SubSeq(acc, 1, Len(acc) - 1))
  ELSE DotSegments(Tail(segs), Append(acc, segs[1]))

\* "scheme://host" and the path of an absolute URL with an authority
UrlOrigin(abs) ==
  LET slash == FirstAt(abs, "/", FirstAt(abs, ":", 1) + 3)
  IN  IF slash = 0 THEN abs ELSE SubSeq(abs, 1, slash - 1)
UrlPath(abs) ==
  LET slash == FirstAt(abs, "/", FirstAt(abs, ":", 1) + 3)
  IN  IF slash = 0 THEN <<"/">> ELSE SubSeq(abs, slash, Len(abs))

\* new URL(url, base).href: ok is FALSE where the constructor throws
newURL(url, base) ==
  IF HasScheme(url) THEN [ok |-> TRUE, href |-> url]
  ELSE IF ~HasScheme(base) THEN [ok |-> FALSE, href |-> <<>>]
  ELSE
    LET basePath == UrlPath(base)
        dirEnd == SetMax({i \in 1..Len(basePath) : basePath[i] = "/"})
        joined == IF url # <<>> /\ url[1] = "/" THEN url
                  ELSE SubSeq(basePath, 1, dirEnd) \o url
        segs == DotSegments(Tail(SplitOn(joined, "/")), <<>>)
    IN  [ok |-> TRUE,
         href |-> UrlOrigin(base) \o <<"/">> \o EncodePath(JoinWith(segs, "/"))]

HttpPrefix == <<"h", "t", "t", "p", ":">>
HttpsPrefix == <<"h", "t", "t", "p", "s", ":">>
MailtoPrefix == <<"m", "a", "i", "l", "t", "o", ":">>
HashPrefix == <<"#">>

\* the targets normalizeLinks returns as they are
IsLeftAlone(url) ==
  \/ startsWith(url, HttpPrefix)
  \/ startsWith(url, HttpsPrefix)
  \/ startsWith(url, MailtoPrefix)
  \/ startsWith(url, HashPrefix)

\* the match of /\[([^\]]*)\]\(([^)]+)\)/ that begins at position i
LinkMatchAt(s, i) ==
  LET close == FirstAt(s, "]", i + 1)
      paren == IF close = 0 THEN 0 ELSE FirstAt(s, ")", close + 2)
      ok == /\ i <= Len(s) /\ s[i] = "["
            /\ close # 0
            /\ close + 1 <= Len(s) /\ s[close + 1] = "("
            /\ paren > close + 2
  IN  IF ok THEN [ok |-> TRUE, text |-> SubSeq(s, i + 1, close - 1),
                  url |-> SubSeq(s, close + 2, paren - 1), end |-> paren]
      ELSE [ok |-> FALSE, text |-> <<>>, url |-> <<>>, end |-> i]

\* the replacement callback
ReplaceLink(match, text, url, sourceUrl) ==
  IF IsLeftAlone(url) THEN match
  ELSE LET u == newURL(url, sourceUrl)
       IN  IF u.ok THEN <<"[">> \o text \o <<"]", "(">> \o u.href \o <<")">>
           ELSE match

\* String.prototype.replace with the global pattern, from position i on:
\* the text up to the next match is kept, the match is replaced
RECURSIVE ReplaceRec(_, _, _, _)
ReplaceRec(s, i, sourceUrl, acc) ==
  LET starts == {j \in i..Len(s) : LinkMatchAt(s, j).ok}
  IN  IF starts = {} THEN acc \o SubSeq(s, i, Len(s))
      ELSE LET j == SetMin(starts)
               m == LinkMatchAt(s, j)
           IN  ReplaceRec(s, m.end + 1, sourceUrl,
                          acc \o SubSeq(s, i, j - 1)
                              \o ReplaceLink(SubSeq(s, j, m.end), m.text,
                                             m.url, sourceUrl))

normalizeLinks(mdContent, sourceUrl) == ReplaceRec(mdContent, 1, sourceUrl, <<>>)

\* the most segments (runs of text and links) of a content
MaxSegments == 2

TextSeg(t) == [link |-> FALSE, text |-> t, target |-> <<>>, title |-> <<>>]
LinkSeg(t, target, title) ==
  [link |-> TRUE, text |-> t, target |-> target, title |-> title]

LinkTargets ==
  {<<"g">>, <<"/", "g">>, <<".", ".", "/", "g">>, <<"#", "f">>,
   <<"h", "t", "t", "p", ":", "/", "/", "x">>, <<"h", "t", "t", "p", "s", ":", "/", "/", "x">>,
   <<"m", "a", "i", "l", "t", "o", ":", "m">>, <<"t", "e", "l", ":", "1">>}

LinkTitles == {<<>>, <<"T">>}

Segments ==
  {TextSeg(<<"a", " ">>), TextSeg(<<"[", "b", "]", " ">>)}
  \cup {LinkSeg(<<"t">>, target, title) :
          target \in LinkTargets, title \in LinkTitles}

SourceUrls == {<<"h", "t", "t", "p", "s", ":", "/", "/", "e", ".", "c", "/", "d", "/", "i">>, <<"h", "t", "t", "p", "s", ":", "/", "/", "e", ".", "c", "/", "i">>}

\* the Markdown of a segment: text as it is, a link as [text](target) or
\* [text](target "title")
RenderSeg(seg) ==
  IF ~seg.link THEN seg.text
  ELSE <<"[">> \o seg.text \o <<"]", "(">> \o seg.target
       \o (IF seg.title = <<>> THEN <<>>
           ELSE <<" ", Quote>> \o seg.title \o <<Quote>>)
       \o <<")">>

RECURSIVE Render(_)
Render(segs) ==
  IF segs = <<>> THEN <<>> ELSE RenderSeg(segs[1]) \o Render(Tail(segs))

InitLinks ==
  /\ fs = IdleFs
  /\ SearchIdle
  /\ step = "call"
  /\ arg \in {[fn |-> "normalizeLinks", segs |-> segs, mdContent |-> Render(segs),
               sourceUrl |-> u] :
               segs \in UNION {[1..n -> Segments] : n \in 0..MaxSegments},
               u \in SourceUrls}
  /\ out = <<>>

\* normalizeLinks(mdContent, sourceUrl)
NormalizeLinks ==
  /\ step = "call"
  /\ arg.fn = "normalizeLinks"
  /\ out' = normalizeLinks(arg.mdContent, arg.sourceUrl)
  /\ step' = "returned"
  /\ UNCHANGED arg
  /\ UNCHANGED searchVars

NextLinks == NormalizeLinks

SpecLinks == InitLinks /\ [][NextLinks]_vars

\* ------------------------------------------------------------------------
\* normalizeSkillName(name) and validateSkillName(name)
\* ------------------------------------------------------------------------

IsLowerLetter(c) == c \in {"a", "b", "c", "d", "m"}

\* [a-z0-9-]
IsNameChar(c) == IsLowerLetter(c) \/ IsDigit(c) \/ c = "-"

\* .replace(/[^a-z0-9-]/g, "-")
ReplaceOthers(t) == [i \in 1..Len(t) |-> IF IsNameChar(t[i]) THEN t[i] ELSE "-"]

\* .replace(/-+/g, "-")
RECURSIVE CollapseHyphens(_)
CollapseHyphens(t) ==
  IF t = <<>> THEN <<>>
  ELSE IF Len(t) >= 2 /\ t[1] = "-" /\ t[2] = "-" THEN CollapseHyphens(Tail(t))
  ELSE <<t[1]>> \o CollapseHyphens(Tail(t))

\* .replace(/^-|-$/g, "")
StripEdgeHyphens(t) ==
  LET front == IF t # <<>> /\ t[1] = "-" THEN Tail(t) ELSE t
  IN  IF front # <<>> /\ front[Len(front)] = "-"
      THEN SubSeq(front, 1, Len(front) - 1)
      ELSE front

normalizeSkillName(name) ==
  StripEdgeHyphens(CollapseHyphens(ReplaceOthers(toLowerCase(name))))

\* the lengths validateSkillName allows
MinNameLength == 1
MaxNameLength == 64

\* the errors validateSkillName reports, by the check that reports them
validateSkillName(name) ==
  (IF Len(name) < MinNameLength \/ Len(name) > MaxNameLength
   THEN {"length"} ELSE {})
  \cup (IF ~(name # <<>> /\ \A i \in 1..Len(name) : IsNameChar(name[i]))
        THEN {"charset"} ELSE {})
  \cup (IF startsWith(name, <<"-">>) \/ (name # <<>> /\ name[Len(name)] = "-")
        THEN {"edge"} ELSE {})
  \cup (IF includes(name, <<"-", "-">>) THEN {"consecutive"} ELSE {})

\* the longest input name
MaxNameLen == 4

NameChars == {"a", "A", "1", "-", "_"}

Names == UNION {[1..n -> NameChars] : n \in 0..MaxNameLen}

InitName ==
  /\ fs = IdleFs
  /\ SearchIdle
  /\ step = "call"
  /\ arg \in {[fn |-> "normalizeSkillName", name |-> n] : n \in Names}
  /\ out = <<>>

\* const normalizedName = normalizeSkillName(skillName)
NormalizeSkillName ==
  /\ step = "call"
  /\ arg.fn = "normalizeSkillName"
  /\ out' = [name |-> normalizeSkillName(arg.name), errors |-> {}]
  /\ step' = "normalized"
  /\ UNCHANGED arg
  /\ UNCHANGED searchVars

\* validateSkillName of the normalized name
ValidateSkillName ==
  /\ step = "normalized"
  /\ out' = [out EXCEPT !.errors = validateSkillName(out.name)]
  /\ step' = "validated"
  /\ UNCHANGED arg
  /\ UNCHANGED searchVars

NextName == NormalizeSkillName \/ ValidateSkillName

SpecName == InitName /\ [][NextName]_vars

\* ------------------------------------------------------------------------
\* Reference notions the properties are stated with
\* ------------------------------------------------------------------------

\* number of occurrences of the non-empty token t met by a left-to-right scan
\* of s from pos that jumps over each occurrence it meets
RECURSIVE GreedyFrom(_, _, _)
GreedyFrom(s, t, pos) ==
  IF pos + Len(t) > Len(s) THEN 0
  ELSE IF MatchesAt(s, t, pos) THEN 1 + GreedyFrom(s, t, pos + Len(t))
  ELSE GreedyFrom(s, t, pos + 1)

RECURSIVE SumGreedy(_, _)
SumGreedy(s, tokens) ==
  IF tokens = <<>> THEN 0
  ELSE GreedyFrom(s, tokens[1], 0) + SumGreedy(s, Tail(tokens))

AllNonEmpty(tokens) == \A i \in 1..Len(tokens) : tokens[i] # <<>>

Readable(p) == fs.files[p].readable
LowerBodyOf(p) == toLowerCase(extractBody(fs.files[p].content))
DocScore(p) == SumGreedy(LowerBodyOf(p), keywords)

\* a readable document with a positive score
Matching(p) == Readable(p) /\ DocScore(p) > 0

\* the matching documents in the order the walker discovered them
MatchingDocs == SelectSeq(yielded, Matching)

PosIn(seq, x) == CHOOSE i \in 1..Len(seq) : seq[i] = x
Files(rs) == {rs[i].file : i \in 1..Len(rs)}

\* searchDocs resolved after scanning the corpus
Scanned == pc = "done" /\ ~AccessFails

\* document p ranks strictly before document q
RanksBefore(p, q) ==
  \/ DocScore(p) > DocScore(q)
  \/ DocScore(p) = DocScore(q) /\ PosIn(yielded, p) < PosIn(yielded, q)

\* ------------------------------------------------------------------------
\* Properties
\* ------------------------------------------------------------------------

\* C1: with maxResults >= 1, searchDocs returns exactly the first
\* min(maxResults, m) of the m matching documents ordered by matches
\* descending, ties in walker discovery order: the returned records are
\* matching documents with their scores, each returned document ranks before
\* the ones behind it, and before every matching document left out.
C1_RankedPrefix ==
  (Scanned /\ ~maxResults.nan /\ maxResults.val >= 1) =>
    LET m == Len(MatchingDocs)
        k == Min(maxResults.val, m)
        docAt(i) == CHOOSE p \in MdPaths : pathRelative(p) = returned[i].file
        kept == {docAt(i) : i \in 1..Len(returned)}
    IN  /\ Len(returned) = k
        /\ \A i \in 1..Len(returned) :
             /\ \E j \in 1..m : pathRelative(MatchingDocs[j]) = returned[i].file
             /\ returned[i].matches = DocScore(docAt(i))
        /\ \A i, j \in 1..Len(returned) :
             i < j => /\ RanksBefore(docAt(i), docAt(j))
                      /\ returned[i].matches >= returned[j].matches
        /\ \A j \in 1..m :
             MatchingDocs[j] \notin kept =>
               \A i \in 1..Len(returned) : RanksBefore(docAt(i), MatchingDocs[j])

\* C1 witness: three documents tie, two are returned, and they are the two
\* the walker met first, the walker having started in the subdirectory.
C1_Witness ==
  /\ Scanned
  /\ maxResults = Num(2)
  /\ Len(MatchingDocs) = 3
  /\ Len(returned) = 2
  /\ returned[1].matches = returned[2].matches
  /\ yielded[1] = <<SubName, CMd>>
  /\ returned[1].file = pathRelative(<<SubName, CMd>>)

\* C2: when the keywords (all non-empty) of a file have been counted,
\* matchesCount is the sum over the tokens of the greedy non-overlapping
\* occurrence count in the lowercased body.
C2_GreedyCount ==
  (pc = "score" /\ kwI > Len(keywords) /\ AllNonEmpty(keywords)) =>
    matchesCount = SumGreedy(LowerBodyOf(filePath), keywords)

\* C2 witness: "aa" in "aaa" has been counted as 1.
C2_Witness ==
  /\ pc = "score"
  /\ kwI > Len(keywords)
  /\ keywords = << <<"a", "a">> >>
  /\ LowerBodyOf(filePath) = <<"a", "a", "a">>
  /\ matchesCount = 1

\* C3: once the scan is over, a readable .md document is in results (the
\* list before truncation) iff its match count is > 0, and every record in
\* results and in the returned list has matches >= 1.
C3_ResultIffPositive ==
  /\ (pc \in {"sort", "done"} /\ ~AccessFails) =>
       \A p \in MdPaths :
          Readable(p) => (pathRelative(p) \in Files(results) <=> DocScore(p) > 0)
  /\ \A i \in 1..Len(results) : results[i].matches >= 1
  /\ \A i \in 1..Len(returned) : returned[i].matches >= 1

\* C3 witness: a scan that left a readable document with score 0 out and
\* took one with a positive score in.
C3_Witness ==
  /\ pc = "sort"
  /\ \E p \in MdPaths : Readable(p) /\ DocScore(p) = 0
                        /\ pathRelative(p) \notin Files(results)
  /\ \E p \in MdPaths : Readable(p) /\ DocScore(p) > 0
                        /\ pathRelative(p) \in Files(results)

\* C4 (as claimed): for every maxResults, the number of results searchDocs
\* returns is <= maxResults (no result at all when maxResults is NaN).
C4_AtMostMaxResults ==
  pc = "done" =>
    IF maxResults.nan THEN Len(returned) = 0
    ELSE Len(returned) <= maxResults.val

InvalidMaxResults == maxResults.nan \/ maxResults.val <= 0

\* the walk of the corpus has begun
ScanBegun ==
  pc \in {"walk", "read", "score", "sort"} \/ yielded # <<>> \/ reads # <<>>

\* C5 (as claimed): when maxResults is not a positive integer, no file of
\* the corpus is enumerated or read and no result list comes out of a scan.
C5_NoScanOnInvalidMax ==
  (pc \notin {"idle", "exit1"} /\ InvalidMaxResults) =>
    /\ ~ScanBegun
    /\ ~Scanned

\* C6 (as claimed): the score of every document for the empty query is 0 and
\* searchDocs("", n) returns no result.
C6_EmptyQueryScoresZero ==
  (pc \notin {"idle", "exit1"} /\ query = <<>>) =>
    /\ matchesCount = 0
    /\ results = <<>>
    /\ returned = <<>>

\* C7 (as claimed): the keywords searchDocs uses are the non-empty lowercase
\* tokens of the query.
C7_KeywordsNonEmpty ==
  /\ AllNonEmpty(keywords)
  /\ \A i \in 1..Len(keywords) : keywords[i] = toLowerCase(keywords[i])

\* C8 (as claimed): a second search of the unchanged corpus with the same
\* query and maxResults enumerates the files in the same order and returns
\* the same list, whatever order the directory listings come in.
C8_SameOrderOnRerun ==
  (pc = "done" /\ prev # <<>>) =>
    /\ yielded = prev[1].yielded
    /\ returned = prev[1].returned

ReadErrorsOf(p) ==
  Cardinality({i \in 1..Len(stderr) : stderr[i] = ErrLine("readerr", p)})

\* C9: a file whose read fails gets one diagnostic and no result; the failure
\* never ends the scan: every path the walker yields is read, searchDocs
\* only throws when a directory cannot be listed, and the list it returns is
\* the one of the readable documents of the whole corpus.
C9_ReadFailureSkipsFile ==
  /\ \A i \in 1..Len(reads) :
        ~Readable(reads[i]) => /\ ReadErrorsOf(reads[i]) = 1
                               /\ pathRelative(reads[i]) \notin Files(results)
  /\ reads = IF pc = "read" THEN SubSeq(yielded, 1, Len(yielded) - 1) ELSE yielded
  /\ pc = "threw" => (fs.root = "unlistable" \/ ~fs.subOk)
  /\ (pc \in {"sort", "done"} /\ ~AccessFails) =>
        /\ \A p \in MdPaths : \E i \in 1..Len(reads) : reads[i] = p
        /\ Files(results) = {pathRelative(p) : p \in {q \in MdPaths : Matching(q)}}
  /\ Scanned => returned = slice0(results, maxResults)

\* C9 witness: the first file read was unreadable, and a file read after it
\* is in the returned list.
C9_Witness ==
  /\ Scanned
  /\ ~Readable(reads[1])
  /\ \E i \in 2..Len(reads) : pathRelative(reads[i]) \in Files(returned)

\* C10 (as claimed): when the corpus root is missing or inaccessible,
\* searchDocs reads no file, does not throw, and returns the empty list after
\* reporting the error exactly once.
C10_MissingRootReturnsEmpty ==
  fs.root # "ok" =>
    /\ pc # "threw"
    /\ reads = <<>>
    /\ pc = "done" => /\ returned = <<>>
                      /\ stderr = <<ErrLine("notfound", REFERENCES_DIR)>>

\* ------------------------------------------------------------------------
\* C11: the delimiter block, read line by line
\* ------------------------------------------------------------------------

\* a delimiter line: three dashes and nothing but blanks after them
IsDelimiterLine(line) == IsMarker(line)

\* the lines after the first that can close the block
ClosingLines(lines) == {k \in 2..Len(lines) : IsDelimiterLine(lines[k])}

\* the text begins with a delimiter line and has a closing delimiter line
HasBlock(lines) == IsDelimiterLine(lines[1]) /\ ClosingLines(lines) # {}

\* the mapping the text between the two delimiter lines decodes to, the empty
\* mapping where it does not decode to one
DecodedBlock(lines, k) ==
  LET d == yamlLoad(joinNL(SubSeq(lines, 2, k - 1)))
  IN  IF d.kind = "map" THEN d.map ELSE EmptyFrontmatter

\* body is the text after line k, blank lines at its head aside
IsTextAfter(body, lines, k) ==
  \E j \in (k + 1)..(Len(lines) + 1) :
    /\ \A i \in (k + 1)..(j - 1) : IsBlank(lines[i])
    /\ body = joinNL(SubSeq(lines, j, Len(lines)))

\* C11: extractFrontmatter of a text that begins with a delimiter line and has
\* a closing delimiter line returns the text after the closing delimiter as
\* body and the decoded block (empty where it does not decode) as metadata;
\* of a text without such a block it returns empty metadata and the text
\* unchanged as body.
C11_BodyAfterClosingDelimiter ==
  step # "call" =>
    LET lines == splitNL(arg.content)
    IN  IF HasBlock(lines) THEN
          LET k == SetMin(ClosingLines(lines))
          IN  /\ IsTextAfter(out.body, lines, k)
              /\ out.frontmatter = DecodedBlock(lines, k)
        ELSE /\ out.frontmatter = EmptyFrontmatter
             /\ out.body = arg.content

\* ------------------------------------------------------------------------
\* C12: the provenance fields of a result
\* ------------------------------------------------------------------------

ProvenanceKeys == {SourceUrlKey, FetchedAtKey}

ResultField(res, key) ==
  IF key = SourceUrlKey THEN res.source_url ELSE res.fetched_at

\* C12 as stated: a result's source_url (fetched_at) is exactly the value of
\* the metadata's field when the metadata has the field, and "Unknown" when it
\* lacks the field.
C12_FieldOrUnknown ==
  step = "pushed" =>
    \A key \in ProvenanceKeys :
      ResultField(out.result, key) =
        IF key \in DOMAIN out.frontmatter THEN out.frontmatter[key]
        ELSE Unknown

\* C12: a result's source_url (fetched_at) is the value of the decoded
\* metadata's field when the field is present with a non-empty string, and
\* "Unknown" when the field is absent, null or the empty string (a block that
\* does not decode leaves every field absent).
C12_FieldWhenNonEmptyElseUnknown ==
  step = "pushed" =>
    \A key \in ProvenanceKeys :
      LET present == key \in DOMAIN out.frontmatter
          field == ResultField(out.result, key)
      IN  /\ present /\ ~out.frontmatter[key].isNull
                     /\ out.frontmatter[key].str # <<>>
             => field = out.frontmatter[key]
          /\ ~present => field = Unknown
          /\ present /\ (out.frontmatter[key].isNull
                         \/ out.frontmatter[key].str = <<>>)
             => field = Unknown
          /\ (FrontmatterMatches(arg.content)
              /\ yamlLoad(FrontmatterMatch(arg.content).yaml).kind = "throw")
             => field = Unknown

\* a result of a document whose metadata has source_url and lacks fetched_at
C12_Witness ==
  /\ step = "pushed"
  /\ SourceUrlKey \in DOMAIN out.frontmatter
  /\ FetchedAtKey \notin DOMAIN out.frontmatter
  /\ out.result.source_url = YamlStr(<<"a">>)
  /\ out.result.fetched_at = Unknown

\* ------------------------------------------------------------------------
\* C13..C16: hit lines, clusters, windows and the printed snippets
\* ------------------------------------------------------------------------

\* line contains token, case-insensitively
ContainsCI(line, token) ==
  \E p \in 0..(Len(line) - Len(token)) :
    \A k \in 1..Len(token) : LowerChar(line[p + k]) = LowerChar(token[k])

\* the 0-based indices of the lines that contain one of the tokens
HitLinesOf(lines, tokens) ==
  {i \in 0..(Len(lines) - 1) :
     \E k \in 1..Len(tokens) : ContainsCI(lines[i + 1], tokens[k])}

\* the hit lines of the call's body
HitLines == HitLinesOf(splitNL(arg.text), Keywords(arg.query))

\* two hit lines of H with no hit line between them
ConsecutiveHits(H, h1, h2) ==
  /\ h1 < h2
  /\ \A h \in (h1 + 1)..(h2 - 1) : h \notin H

\* the numbers of S in ascending order
Ascending(S) ==
  [i \in 1..Cardinality(S) |->
     CHOOSE x \in S : Cardinality({y \in S : y < x}) = i - 1]

\* the clusters of the hit lines H, in ascending order, each as a set: a
\* cluster starts at a hit line with no hit line in the 2c+1 lines before it
ClustersOf(H, c) ==
  LET starts == Ascending({h \in H : \A d \in 1..(2 * c + 1) : (h - d) \notin H})
  IN  [g \in 1..Len(starts) |->
         {h \in H : /\ h >= starts[g]
                    /\ g < Len(starts) => h < starts[g + 1]}]

\* the clusters of the call's body
Clusters == ClustersOf(HitLines, arg.contextLines)

\* the hit indices of the groups, in the groups' order
Flatten(groups) ==
  LET RECURSIVE Sum(_)
      Sum(k) == IF k = 0 THEN 0 ELSE Len(groups[k]) + Sum(k - 1)
      before == [g \in 1..(Len(groups) + 1) |-> Sum(g - 1)]
  IN  [n \in 1..before[Len(groups) + 1] |->
         LET g == CHOOSE x \in 1..Len(groups) :
                    before[x] < n /\ n <= before[x] + Len(groups[x])
         IN  groups[g][n - before[g]]]

InSameGroup(groups, h1, h2) ==
  \E g \in 1..Len(groups) :
    /\ \E k \in 1..Len(groups[g]) : groups[g][k] = h1
    /\ \E k \in 1..Len(groups[g]) : groups[g][k] = h2

\* C13: the groups of getContext hold the hit line indices in ascending order,
\* each once; two consecutive hit indices are in the same group iff their gap
\* is at most 2*contextLines + 1; there is one snippet per group.
C13_ClusterIffGapWithin ==
  step # "call" =>
    LET H == HitLines
    IN  /\ Flatten(out.groups) = Ascending(H)
        /\ \A g \in 1..Len(out.groups) : out.groups[g] # <<>>
        /\ \A h1, h2 \in H :
             ConsecutiveHits(H, h1, h2) =>
               (InSameGroup(out.groups, h1, h2)
                  <=> h2 - h1 <= 2 * arg.contextLines + 1)
        /\ Len(out.contexts) = Len(out.groups)

\* contextLines = 2, hits on lines 10, 11 and 50: one snippet of lines 8..13
\* and a second snippet of lines 48..52
C13_Witness ==
  /\ step = "returned"
  /\ arg.text = Body53 /\ arg.query = <<"a">> /\ arg.contextLines = 2
  /\ out.groups = << <<10, 11>>, <<50>> >>
  /\ out.contexts =
       << joinNL(<< PlainPrefix \o LineB, PlainPrefix \o LineB,
                    HitPrefix \o HitLineCA, HitPrefix \o HitLineCA,
                    PlainPrefix \o LineB, PlainPrefix \o LineB >>),
          joinNL(<< PlainPrefix \o LineB, PlainPrefix \o LineB,
                    HitPrefix \o HitLineCA,
                    PlainPrefix \o LineB, PlainPrefix \o LineB >>) >>

\* the text of a rendered line after its two-character prefix
Unprefixed(rendered) == SubSeq(rendered, 3, Len(rendered))
PrefixOf(rendered) == SubSeq(rendered, 1, 2)

WindowStart(cluster, c) == Max(0, SetMin(cluster) - c)
WindowEnd(cluster, c, lineCount) == Min(lineCount, SetMax(cluster) + c + 1)

\* C14: the snippet of the cluster with first hit f and last hit l shows
\* exactly the lines of [max(0, f-c), min(lineCount, l+c+1)); its line count is
\* at least (l-f)+1 and at most (l-f)+1+2c.
C14_SnippetIsWindow ==
  step # "call" =>
    LET lines == splitNL(arg.text)
        c == arg.contextLines
        clusters == Clusters
    IN  /\ Len(out.contexts) = Len(clusters)
        /\ \A g \in 1..Len(clusters) :
             LET f == SetMin(clusters[g])
                 l == SetMax(clusters[g])
                 from == WindowStart(clusters[g], c)
                 to == WindowEnd(clusters[g], c, Len(lines))
                 shown == splitNL(out.contexts[g])
             IN  /\ Len(shown) = to - from
                 /\ \A j \in 1..Len(shown) :
                      Unprefixed(shown[j]) = lines[from + j]
                 /\ Len(shown) >= (l - f) + 1
                 /\ Len(shown) <= (l - f) + 1 + 2 * c

\* two clusters, the first window cut at the body's start, the last at its end
C14_Witness ==
  /\ step = "returned"
  /\ arg.contextLines = 2
  /\ Len(out.contexts) = 2
  /\ Len(Clusters) = 2
  /\ SetMin(Clusters[1]) - arg.contextLines < 0
  /\ SetMax(Clusters[2]) + arg.contextLines + 1 > Len(splitNL(arg.text))
  /\ Len(splitNL(out.contexts[1])) = 3

\* C15: a line is a hit iff it contains, case-insensitively, at least one
\* token; with no hit line the result is empty; a rendered line carries "> "
\* iff it is a hit line and "  " otherwise.
C15_HitLinesMarked ==
  step # "call" =>
    LET H == HitLines
        clusters == Clusters
    IN  /\ {out.matchIndices[k] : k \in 1..Len(out.matchIndices)} = H
        /\ H = {} => out.contexts = <<>>
        /\ Len(out.contexts) = Len(clusters)
        /\ \A g \in 1..Len(clusters) :
             LET shown == splitNL(out.contexts[g])
                 from == WindowStart(clusters[g], arg.contextLines)
             IN  \A j \in 1..Len(shown) :
                   PrefixOf(shown[j]) =
                     IF (from + j - 1) \in H THEN HitPrefix ELSE PlainPrefix

\* a snippet with a hit line found through its upper-case letter and a line
\* that is no hit
C15_Witness ==
  /\ step = "returned"
  /\ arg.query = <<"a">>
  /\ \E g \in 1..Len(out.contexts) :
       LET shown == splitNL(out.contexts[g])
       IN  /\ \E j \in 1..Len(shown) : shown[j] = HitPrefix \o HitLineCA
           /\ \E j \in 1..Len(shown) : shown[j] = PlainPrefix \o LineB

PrintedSnippets == SelectSeq(out.stdout, LAMBDA x : x.kind = "snippet")
PrintedMarkers == SelectSeq(out.stdout, LAMBDA x : x.kind = "marker")

\* the snippets printed up to position i of the output
SnippetsUpTo(i) ==
  Cardinality({k \in 1..i : out.stdout[k].kind = "snippet"})

MarkerFollows(i) ==
  i < Len(out.stdout) /\ out.stdout[i + 1].kind = "marker"

NoCapAndFirstThree ==
  /\ Len(out.contexts) = Len(Clusters)
  /\ Len(PrintedSnippets) = Min(3, Len(out.contexts))
  /\ \A j \in 1..Len(PrintedSnippets) :
       PrintedSnippets[j].val = out.contexts[j]

\* C16 as stated: getContext returns one snippet per cluster; the formatter
\* prints the first 3 snippets at most; a marker follows a printed snippet iff
\* more snippets exist after it.
C16_MarkerIffMoreSnippets ==
  step = "printed" =>
    /\ NoCapAndFirstThree
    /\ \A i \in 1..Len(out.stdout) :
         out.stdout[i].kind = "snippet" =>
           (MarkerFollows(i) <=> SnippetsUpTo(i) < Len(out.contexts))

\* C16: getContext returns one snippet per cluster; the formatter prints the
\* first 3 snippets at most; the marker line follows every printed snippet,
\* whether or not more snippets exist.
C16_MarkerAfterEverySnippet ==
  step = "printed" =>
    /\ NoCapAndFirstThree
    /\ \A i \in 1..Len(out.stdout) :
         out.stdout[i].kind = "snippet" => MarkerFollows(i)
    /\ Len(PrintedMarkers) = Len(PrintedSnippets)

\* four clusters, three snippets printed
C16_Witness ==
  /\ step = "printed"
  /\ arg.contextLines = DefaultContextLines
  /\ Len(out.contexts) = 4
  /\ Len(PrintedSnippets) = 3
  /\ MarkerFollows(Len(out.stdout) - 2)

\* ------------------------------------------------------------------------
\* C17, C18: the files a walk yields
\* ------------------------------------------------------------------------

\* the directories of the crawl directory that are real directories
CrawlSubDirs1 ==
  {<<e.name>> : e \in {x \in CrawlDirents(<<>>) : x.kind = "dir"}}
CrawlSubDirs2 ==
  UNION {{Append(d, e.name) : e \in {x \in CrawlDirents(d) : x.kind = "dir"}} :
           d \in CrawlSubDirs1}
CrawlDirs == {<<>>} \cup CrawlSubDirs1 \cup CrawlSubDirs2

\* the paths of the entries of kind k, at any depth
EntriesOfKind(k) ==
  UNION {{Append(d, e.name) : e \in {x \in CrawlDirents(d) : x.kind = k}} :
           d \in CrawlDirs}

\* an entry whose resolved location is outside the crawl directory
Escaping == EntriesOfKind("symlink")

\* the path leads through an escaping entry
ResolvesOutside(p) == \E n \in 1..Len(p) : SubSeq(p, 1, n) \in Escaping

\* C17: a completed walk has yielded no path that resolves outside the root,
\* and has written a warning for every escaping entry it skipped.
C17_EscapesSkippedWithWarning ==
  (pc = "done" /\ WalkCaller = "main") =>
    /\ \A i \in 1..Len(yielded) : ~ResolvesOutside(yielded[i])
    /\ \A e \in Escaping : \E k \in 1..Len(stderr) : stderr[k].path = e

\* the extension of a file name: from its last "." on, none where the name
\* has no "." after its first character
Extension(name) ==
  IF \E i \in 2..Len(name) : name[i] = "."
  THEN LET i == CHOOSE i \in 2..Len(name) :
                  name[i] = "." /\ \A j \in (i + 1)..Len(name) : name[j] # "."
       IN  SubSeq(name, i, Len(name))
  ELSE <<>>

\* a filter value written with its leading dot
Dotted(e) == IF e # <<>> /\ e[1] = "." THEN e ELSE <<".">> \o e

\* the filter lets the file name through
Accepted(name, exts) ==
  exts.given => \E k \in 1..Len(exts.list) : Extension(name) = Dotted(exts.list[k])

\* C18: a completed walk has yielded each regular file under the root, at any
\* depth, whose extension the filter accepts, once, and nothing else; a filter
\* value with and without its leading dot accept the same files.
C18_YieldsEachAcceptedFileOnce ==
  (pc = "done" /\ WalkCaller = "main") =>
    /\ \A i, j \in 1..Len(yielded) : yielded[i] = yielded[j] => i = j
    /\ {yielded[i] : i \in 1..Len(yielded)} =
         {p \in EntriesOfKind("file") : Accepted(p[Len(p)], arg.exts)}
    /\ out = yielded

\* the walk with the filter "html": the three .html files, one at depth 3
C18_Witness ==
  /\ pc = "done" /\ WalkCaller = "main"
  /\ arg.exts = Exts(<<HtmlExtUndotted>>)
  /\ {yielded[i] : i \in 1..Len(yielded)} =
       {<<AHtml>>, <<SubName, CHtml>>, <<SubName, TName, EHtml>>}

\* ------------------------------------------------------------------------
\* C19: links with their targets resolved
\* ------------------------------------------------------------------------

\* the segment with its target made absolute: a link whose target starts with
\* http:, https:, mailto: or # as it is, any other link with its target
\* resolved against sourceUrl, text as it is
ResolvedSeg(seg, sourceUrl) ==
  IF seg.link /\ ~IsLeftAlone(seg.target)
  THEN [seg EXCEPT !.target = newURL(seg.target, sourceUrl).href]
  ELSE seg

\* C19: normalizeLinks returns the content with every link whose target starts
\* with http:, https:, mailto: or # unchanged, the target of every other link
\* replaced by its resolution against sourceUrl, and everything else (link
\* texts, titles, text outside links) unchanged.
C19_TargetsResolvedRestUnchanged ==
  (step = "returned" /\ arg.fn = "normalizeLinks") =>
    out = Render([k \in 1..Len(arg.segs) |->
                    ResolvedSeg(arg.segs[k], arg.sourceUrl)])

\* ------------------------------------------------------------------------
\* C20: the normalized skill name
\* ------------------------------------------------------------------------

\* C20: the name normalizeSkillName returns consists only of lowercase
\* letters, digits and hyphens, does not start or end with a hyphen, has no
\* two hyphens in a row, and passes validateSkillName's character-set,
\* leading/trailing-hyphen and consecutive-hyphen checks.
C20_NormalizedNameComplies ==
  step = "validated" =>
    /\ \A i \in 1..Len(out.name) :
         out.name[i] \in {"a", "b", "c", "d", "m", "-"} \/ IsDigit(out.name[i])
    /\ out.name # <<>> => out.name[1] # "-" /\ out.name[Len(out.name)] # "-"
    /\ \A i \in 1..(Len(out.name) - 1) :
         ~(out.name[i] = "-" /\ out.name[i + 1] = "-")
    /\ out.errors \cap {"charset", "edge", "consecutive"} = {}

\* ------------------------------------------------------------------------
\* C21: termination of the search
\* ------------------------------------------------------------------------

\* the command has ended: searchDocs returned or threw, or the usage error
\* ended the process
Terminated == pc \in {"done", "threw", "exit1"}

\* C21: for every query and every corpus the search terminates.
C21_SearchTerminates == <>Terminated

\* ------------------------------------------------------------------------
\* C22: a subdirectory that cannot be listed
\* ------------------------------------------------------------------------

\* C22: when a subdirectory of the corpus cannot be enumerated, the search
\* does not throw: it still returns the ranked results of the documents in
\* the other directories.
C22_UnlistableSubdirNotFatal ==
  (fs.layout = "corpus" /\ fs.root = "ok" /\ ~fs.subOk /\ step = "none") =>
    /\ pc # "threw"
    /\ pc = "done" =>
         \A p \in MdPaths :
           (Len(p) = 1 /\ Matching(p)) => pathRelative(p) \in Files(results)

\* ------------------------------------------------------------------------
\* C25: a result has a context snippet
\* ------------------------------------------------------------------------

\* C25: when every token of the query is non-empty, every result pushed by
\* searchDocs, and so every result it returns, has at least one context
\* snippet.
C25_ResultHasContext ==
  AllNonEmpty(keywords) =>
    /\ \A i \in 1..Len(results) : results[i].contexts # <<>>
    /\ \A i \in 1..Len(returned) : returned[i].contexts # <<>>

\* C25 witness: a several-line document was returned for a query of two
\* non-empty tokens, with its snippet
C25_Witness ==
  /\ Scanned
  /\ Len(keywords) = 2
  /\ AllNonEmpty(keywords)
  /\ \E i \in 1..Len(returned) :
       /\ fs.files[<<AMd>>].content = DocLines
       /\ returned[i].file = pathRelative(<<AMd>>)
       /\ Len(returned[i].contexts) = 1

\* ------------------------------------------------------------------------
\* C26: the snippets of one call, taken together
\* ------------------------------------------------------------------------

\* the lines snippet g shows: from startIdx up to, not including, endIdx
ShownLines(lines, group, c) ==
  StartIdx(group, c)..(EndIdx(lines, group, c) - 1)

\* C26: the snippets are in ascending line order, between two consecutive
\* snippets lies at least one line that neither shows (so the windows are
\* pairwise disjoint), and every hit line of the body is shown, marked, in
\* exactly one snippet.
C26_SnippetsAscendingDisjointCovering ==
  step # "call" =>
    LET lines == splitNL(arg.text)
        c == arg.contextLines
        groups == out.groups
        H == HitLinesOf(lines, Keywords(arg.query))
    IN  /\ Len(out.contexts) = Len(groups)
        /\ \A g \in 1..Len(groups) :
             /\ ShownLines(lines, groups[g], c) # {}
             /\ Len(splitNL(out.contexts[g])) =
                  Cardinality(ShownLines(lines, groups[g], c))
        /\ \A g \in 1..(Len(groups) - 1) :
             SetMax(ShownLines(lines, groups[g], c)) + 1
               < SetMin(ShownLines(lines, groups[g + 1], c))
        /\ \A g1, g2 \in 1..Len(groups) :
             g1 # g2 => ShownLines(lines, groups[g1], c)
                          \cap ShownLines(lines, groups[g2], c) = {}
        /\ \A h \in H :
             Cardinality({g \in 1..Len(groups) :
                            h \in ShownLines(lines, groups[g], c)}) = 1
        /\ \A h \in H :
             Cardinality({g \in 1..Len(groups) :
                            \E k \in 1..Len(groups[g]) : groups[g][k] = h}) = 1

\* C26 witness: four snippets, each separated from the next by exactly one
\* line that is not shown
C26_Witness ==
  /\ step = "returned"
  /\ arg.text = Body19 /\ arg.contextLines = 2
  /\ Len(out.contexts) = 4
  /\ \A g \in 1..3 :
       SetMax(ShownLines(splitNL(arg.text), out.groups[g], 2)) + 2
         = SetMin(ShownLines(splitNL(arg.text), out.groups[g + 1], 2))

\* ------------------------------------------------------------------------
\* main (main.ts): the pipeline Fetch, Convert, Normalize, Generate,
\* Validate, Package.  arg holds the command line and the directories the
\* run finds, out the run's state, step the statement main is at.
\* ------------------------------------------------------------------------

\* the largest number of HTML files in the crawl directory
MaxPages == 2

IndexHtml == <<"i", "n", "d", "e", "x", ".", "h", "t", "m", "l">>
ASpBHtml == <<"a", " ", "b", ".", "h", "t", "m", "l">>
AUnderBHtml == <<"a", "_", "b", ".", "h", "t", "m", "l">>
IndexName == <<"i", "n", "d", "e", "x">>
CrawlName == <<"c", "r", "a", "w", "l">>
ADirName == <<"a">>
MdExt == <<".", "m", "d">>

PageFileNames == {AHtml, IndexHtml, ASpBHtml, AUnderBHtml}
PageDirNames == {ADirName, CrawlName}

\* the HTML files a crawl directory can hold, as paths below it
PagePaths ==
  {<<f>> : f \in PageFileNames}
  \cup {<<d, f>> : d \in PageDirNames, f \in PageFileNames}

\* the files of a directory and of its subdirectories are yielded together
SubtreesContiguous(ps) ==
  \A i, k \in 1..Len(ps) : \A j \in (i + 1)..(k - 1) : \A n \in 1..2 :
    (Len(ps[i]) > n /\ Len(ps[k]) > n
       /\ SubSeq(ps[i], 1, n) = SubSeq(ps[k], 1, n))
      => (Len(ps[j]) > n /\ SubSeq(ps[j], 1, n) = SubSeq(ps[i], 1, n))

\* the lists walkFiles(crawlDir, [".html"]) can yield
PageLists ==
  {ps \in UNION {[1..n -> PagePaths] : n \in 0..MaxPages} :
     /\ \A i, j \in 1..Len(ps) : ps[i] = ps[j] => i = j
     /\ SubtreesContiguous(ps)}

\* the SKILL_NAME arguments of the model
SkillNameArgs == {<<"a">>, <<"A">>, <<"a", "_", "b">>}

\* outputBase of a run with neither --output nor --user
OutputBase == <<".claude", "skills">>

\* s.endsWith(suffix)
endsWith(s, suffix) ==
  Len(suffix) <= Len(s)
    /\ SubSeq(s, Len(s) - Len(suffix) + 1, Len(s)) = suffix

\* path.basename
basename(p) == p[Len(p)]

\* path.basename(path.dirname(htmlFile)) of a file below crawlDir
ParentDirName(p) == IF Len(p) = 1 THEN CrawlName ELSE p[Len(p) - 1]

\* [a-zA-Z0-9._-]
IsFileNameChar(c) ==
  \/ IsDigit(c)
  \/ c \in {".", "_", "-"}
  \/ c \in {"a", "b", "c", "d", "e", "h", "i", "l", "m", "n", "r", "t", "w",
            "x", "A", "B"}

\* .replace(/[^a-zA-Z0-9._-]/g, "_")
Sanitize(t) == [i \in 1..Len(t) |-> IF IsFileNameChar(t[i]) THEN t[i] ELSE "_"]

\* filename.replace(/\.html$/, "")
StripHtml(f) ==
  IF endsWith(f, HtmlExt) THEN SubSeq(f, 1, Len(f) - Len(HtmlExt)) ELSE f

\* nameWithoutExt of an HTML file
NameWithoutExt(p) ==
  Sanitize(IF basename(p) = IndexHtml
           THEN IF ParentDirName(p) = CrawlName THEN IndexName
                ELSE ParentDirName(p)
           ELSE StripHtml(basename(p)))

\* the file name of mdPath = path.join(tempMdDir, nameWithoutExt + ".md")
MdName(p) == NameWithoutExt(p) \o MdExt

\* a Markdown file of the temp directory: its name and the HTML file it was
\* converted from (<<>> for a file an earlier run left)
MdFile(name, from) == [name |-> name, from |-> from]
CachedMd == {MdFile(AMd, <<>>)}

\* the step titles main logs, and the two removals of the temp directory
PipelineOrder ==
  <<"RemoveTemp", "Fetch", "Convert", "Normalize", "Generate", "Validate",
    "Package", "Clean">>

\* a fetch in place of every skipped fetch
FetchWantedAlways(skipFetch) == TRUE

\* if (!skipFetch)
FetchWanted(skipFetch) == ~skipFetch

InitMain ==
  /\ fs = IdleFs
  /\ SearchIdle
  /\ step = "call"
  /\ arg \in {[fn |-> "main", skillName |-> n, skipFetch |-> sf, clean |-> cl,
               tempExists |-> te, pages |-> ps] :
               n \in SkillNameArgs, sf \in BOOLEAN, cl \in BOOLEAN,
               te \in BOOLEAN, ps \in PageLists}
  /\ out = [log |-> <<>>,
            tempExists |-> arg.tempExists,
            md |-> IF arg.tempExists THEN CachedMd ELSE {},
            htmlFiles |-> <<>>, i |-> 1,
            convertedCount |-> 0, skippedCount |-> 0,
            dirs |-> {}, refs |-> {},
            validated |-> <<>>, valid |-> FALSE,
            packaged |-> <<>>, skillFile |-> FALSE]

\* if (!skipFetch) { if (await exists(tempDir)) await fs.rm(tempDir);
\* mkdir(tempDownloadDir) }  mkdir(tempMdDir)
PrepareTemp ==
  /\ step = "call"
  /\ arg.fn = "main"
  /\ out' = IF FetchWanted(arg.skipFetch) /\ out.tempExists
            THEN [out EXCEPT !.log = Append(@, "RemoveTemp"), !.md = {},
                             !.tempExists = TRUE]
            ELSE [out EXCEPT !.tempExists = TRUE]
  /\ step' = "fetch"
  /\ UNCHANGED arg
  /\ UNCHANGED searchVars

\* Step 1: await fetchSite(url, tempDownloadDir, ...), or skipped
Fetch ==
  /\ step = "fetch"
  /\ out' = IF FetchWanted(arg.skipFetch)
            THEN [out EXCEPT !.log = Append(@, "Fetch")]
            ELSE out
  /\ step' = "walk"
  /\ UNCHANGED arg
  /\ UNCHANGED searchVars

\* Step 2: the HTML files of the crawl directory are collected
WalkHtml ==
  /\ step = "walk"
  /\ out' = [out EXCEPT !.log = Append(@, "Convert"),
                        !.htmlFiles = arg.pages, !.i = 1]
  /\ step' = "convert"
  /\ UNCHANGED arg
  /\ UNCHANGED searchVars

\* one iteration of for (const htmlFile of htmlFiles)
ConvertOne ==
  /\ step = "convert"
  /\ out.i <= Len(out.htmlFiles)
  /\ LET htmlFile == out.htmlFiles[out.i]
         mdName == MdName(htmlFile)
     IN  out' =
           IF ~StartsWith(pathResolve(<<CrawlName>> \o htmlFile),
                          pathResolve(<<CrawlName>>))
           THEN [out EXCEPT !.i = @ + 1]
           ELSE IF \E m \in out.md : m.name = mdName
           THEN [out EXCEPT !.skippedCount = @ + 1, !.i = @ + 1]
           ELSE [out EXCEPT !.md = @ \cup {MdFile(mdName, htmlFile)},
                            !.convertedCount = @ + 1, !.i = @ + 1]
  /\ UNCHANGED <<step, arg>>
  /\ UNCHANGED searchVars

\* Step 3: normalizeMarkdown(mdFile, mdFile) of every file of tempMdDir
Normalize ==
  /\ step = "convert"
  /\ out.i > Len(out.htmlFiles)
  /\ out' = [out EXCEPT !.log = Append(@, "Normalize")]
  /\ step' = "generate"
  /\ UNCHANGED arg
  /\ UNCHANGED searchVars

\* Step 4: generateSkillStructure(skillName, tempMdDir, outputBase, ...)
\* creates path.join(outputBase, normalizeSkillName(skillName)) and copies
\* the Markdown files to its references/
Generate ==
  /\ step = "generate"
  /\ out' = [out EXCEPT
               !.log = Append(@, "Generate"),
               !.dirs = @ \cup {pathJoin(OutputBase,
                                         normalizeSkillName(arg.skillName))},
               !.refs = {m.name : m \in out.md}]
  /\ step' = "validate"
  /\ UNCHANGED arg
  /\ UNCHANGED searchVars

\* const skillDir = path.join(outputBase, skillName)
SkillDir == pathJoin(OutputBase, arg.skillName)

\* Step 5: validateSkill(skillDir); false when skillDir is no directory
Validate ==
  /\ step = "validate"
  /\ out' = [out EXCEPT !.log = Append(@, "Validate"),
                        !.validated = SkillDir,
                        !.valid = SkillDir \in out.dirs]
  /\ step' = "package"
  /\ UNCHANGED arg
  /\ UNCHANGED searchVars

\* Step 6: packageSkill(skillDir, skillOutput); null when skillDir is no
\* directory
Package ==
  /\ step = "package"
  /\ out' = [out EXCEPT !.log = Append(@, "Package"),
                        !.packaged = SkillDir,
                        !.skillFile = SkillDir \in out.dirs]
  /\ step' = "clean"
  /\ UNCHANGED arg
  /\ UNCHANGED searchVars

\* if (clean) await fs.rm(tempDir, { recursive: true })
Clean ==
  /\ step = "clean"
  /\ out' = IF arg.clean
            THEN [out EXCEPT !.log = Append(@, "Clean"), !.tempExists = FALSE,
                             !.md = {}]
            ELSE out
  /\ step' = "done"
  /\ UNCHANGED arg
  /\ UNCHANGED searchVars

\* an awaited operation rejects: catch (e) { logger.error; Deno.exit(1) }
MainFails ==
  /\ step \in {"call", "fetch", "walk", "convert", "generate", "validate",
               "package", "clean"}
  /\ arg.fn = "main"
  /\ step' = "exit1"
  /\ UNCHANGED <<arg, out>>
  /\ UNCHANGED searchVars

NextMain ==
  PrepareTemp \/ Fetch \/ WalkHtml \/ ConvertOne \/ Normalize \/ Generate
    \/ Validate \/ Package \/ Clean \/ MainFails

SpecMain == InitMain /\ [][NextMain]_vars

\* ------------------------------------------------------------------------
\* C23: the directory main validates and packages
\* ------------------------------------------------------------------------

\* C23: the directory main passes to validateSkill and to packageSkill is
\* the directory generateSkillStructure created, whatever the SKILL_NAME.
C23_ValidatesGeneratedDir ==
  /\ out.validated # <<>> => out.validated \in out.dirs
  /\ out.packaged # <<>> => out.packaged \in out.dirs

\* ------------------------------------------------------------------------
\* C24: one Markdown file per HTML file
\* ------------------------------------------------------------------------

\* C24: in a run without --skip-fetch, distinct HTML files have distinct
\* Markdown paths: when the conversion loop has ended no file was counted as
\* cached and every HTML file has its own Markdown file.
C24_DistinctPagesDistinctMarkdown ==
  (~arg.skipFetch
     /\ step \in {"generate", "validate", "package", "clean", "done"}) =>
    /\ \A i, j \in 1..Len(out.htmlFiles) :
         i # j => MdName(out.htmlFiles[i]) # MdName(out.htmlFiles[j])
    /\ out.skippedCount = 0
    /\ \A i \in 1..Len(out.htmlFiles) :
         \E m \in out.md : m.from = out.htmlFiles[i]

\* ------------------------------------------------------------------------
\* C27: the order of the pipeline
\* ------------------------------------------------------------------------

\* the position of a logged step in the pipeline
Rank(e) == CHOOSE r \in 1..Len(PipelineOrder) : PipelineOrder[r] = e

Logged(e) == \E i \in 1..Len(out.log) : out.log[i] = e

\* the statements of main after the one a step name stands for
StepsFrom(s) ==
  CASE s = "walk" -> {"walk", "convert", "generate", "validate", "package",
                      "clean", "done"}
    [] s = "clean" -> {"clean", "done"}
    [] s = "done" -> {"done"}

\* C27: the steps run in the order Fetch, Convert, Normalize, Generate,
\* Validate, Package, each once and each after the one before it; Fetch and
\* the removal of an existing temp directory happen exactly when --skip-fetch
\* is not given; with --clean the temp directory is removed after Package,
\* and not between its creation and Package.
C27_PipelineOrder ==
  /\ \A i, j \in 1..Len(out.log) :
       i < j => Rank(out.log[i]) < Rank(out.log[j])
  /\ Logged("Convert") => (Logged("Fetch") \/ arg.skipFetch)
  /\ Logged("Normalize") => Logged("Convert")
  /\ Logged("Generate") => Logged("Normalize")
  /\ Logged("Validate") => Logged("Generate")
  /\ Logged("Package") => Logged("Validate")
  /\ Logged("Fetch") => ~arg.skipFetch
  /\ Logged("RemoveTemp") => (~arg.skipFetch /\ arg.tempExists)
  /\ step \in StepsFrom("walk") =>
       /\ Logged("Fetch") <=> ~arg.skipFetch
       /\ Logged("RemoveTemp") <=> (~arg.skipFetch /\ arg.tempExists)
  /\ Logged("Clean") => (arg.clean /\ Logged("Package"))
  /\ (step \in StepsFrom("walk") /\ ~Logged("Clean")) => out.tempExists
  /\ step = "done" =>
       /\ \A r \in 3..7 : Logged(PipelineOrder[r])
       /\ Logged("Clean") <=> arg.clean
       /\ out.tempExists <=> ~arg.clean

\* C27 witness: a run with --clean and without --skip-fetch that found an
\* earlier temp directory has ended: all eight events in order
C27_Witness ==
  /\ step = "done"
  /\ arg.clean /\ ~arg.skipFetch /\ arg.tempExists
  /\ out.log = PipelineOrder
  /\ Len(arg.pages) = MaxPages

====
